---- MODULE Spec2Model ----
(***************************************************************************)
(* Behavioural model of the batch handlers of onedata/automation-examples. *)
(* Each handler is a state machine of its own (its module-level globals,   *)
(* the position of handle, of its worker threads and of its monitor        *)
(* thread); the handlers do not share state, so each has its own           *)
(* specification and leaves the variables of the others untouched.         *)
(*                                                                         *)
(*   ccm_*  lambdas/calculate-checksum-mounted/handler.py                  *)
(*   ccr_*  lambdas/calculate-checksum-rest/handler.py                     *)
(*   bcc_*  bagit-uploader/calculate-checksum/function/handler.py          *)
(*   adr_*  lambdas/bagit-uploader-archive-destination-rest/handler.py     *)
(*   bv_*   bagit-uploader/validate/function/handler.py                    *)
(*   udm_*  lambdas/bagit-uploader-unpack-data-mounted/handler.py          *)
(*   lbcc_* lambdas/bagit-uploader-calculate-checksum/handler.py           *)
(*   vm_*   lambdas/bagit-uploader-validate-mounted/handler.py             *)
(*   lv_*   lambdas/bagit-uploader-validate/handler.py                     *)
(***************************************************************************)
EXTENDS Integers, Sequences, FiniteSets, Bags, TLC

(***************************************************************************)
(* Bounds of the model.                                                    *)
(***************************************************************************)
\* jobs the requests made to one process hold in all (the longest argsBatch)
MaxJobs == 2
\* handle invocations made in one process
MaxInvocations == 2
\* monitor wait() timeouts (seconds of the clock) followed in one invocation
MaxTicks == 2
\* the heartbeat interval the host asks for, in seconds (monitor ticks are 1 s)
interval_seconds == 2
\* times the clock of a process is seen to advance
MaxAdvances == 3
\* int(time.time()) when the process starts
StartTime == 1000
\* status requests one job makes for its archive
MaxPolls == 2
\* entries of an archive's listing
MaxEntries == 3
MaxChunks == 2
MaxChunkLen == 2
MaxFiles == 2

VARIABLES
    \* ---- lambdas/calculate-checksum-mounted ----
    ccm_all_jobs_processed,  \* _all_jobs_processed: the module-level Event
    ccm_measurements_queue,  \* _measurements_queue: the module-level Queue
    ccm_request,             \* job_batch_request of the running invocation
    ccm_invocation,          \* handle invocations started in this process
    ccm_submitted,           \* jobs of all the requests made so far
    ccm_handle_pc,           \* position of handle
    ccm_job,                 \* per job: position of run_job, chunks read
    ccm_futures,             \* per job: the value executor.map holds for it
    ccm_completed,           \* job indices in the order they finished
    ccm_monitor,             \* the monitor thread: position, any_job_ongoing
    ccm_response,            \* what handle returned
    ccm_enqueued,            \* measurements put during this invocation
    ccm_streamed,            \* bag of measurements given to stream_items
    ccm_now,                 \* seconds elapsed in this invocation
    ccm_heartbeats,          \* heartbeat_callback: calls, time of the last
    \* ---- lambdas/calculate-checksum-rest ----
    ccr_all_jobs_processed,  \* _all_jobs_processed
    ccr_measurements_queue,  \* _measurements_queue
    ccr_request,             \* job_batch_request of the running invocation
    ccr_invocation,          \* handle invocations started in this process
    ccr_submitted,           \* jobs of all the requests made so far
    ccr_handle_pc,           \* position of handle
    ccr_job,                 \* per job: position of run_job, chunks read,
                             \* the exception raised in its try block
    ccr_futures,             \* per job: what its run_job call came to
    ccr_monitor,             \* the monitor thread: position, any_job_ongoing
    ccr_response,            \* what handle returned
    ccr_http,                \* REST requests sent in this invocation
    ccr_streamed,            \* measurements given to stream_items
    \* ---- bagit-uploader/calculate-checksum ----
    bcc_now,                 \* int(time.time())
    bcc_advances,            \* times the clock was seen to advance
    bcc_LAST_HEARTBEAT_TIME, \* the module-level LAST_HEARTBEAT_TIME
    bcc_posts,               \* heartbeat POSTs issued: time, whether r.ok
    bcc_invocation,          \* handle invocations started in this process
    bcc_file,                \* args["filePath"] of the running invocation
    bcc_pc,                  \* position of handle
    bcc_algorithm,           \* index of the loop over the algorithms
    bcc_read,                \* blocks read by calculate_checksum
    bcc_file_info,           \* file_info: the algorithms verified
    bcc_response,            \* what handle returned
    \* ---- lambdas/bagit-uploader-archive-destination-rest ----
    adr_all_jobs_processed,  \* _all_jobs_processed
    adr_measurements_queue,  \* _measurements_queue
    adr_argsBatch,           \* the jobs of the request: their directories
    adr_handle_pc,           \* position of handle
    adr_job,                 \* per job: position of run_job, the locals of
                             \* await_archive_preserved, the end of its sleep
    adr_results,             \* per job: what run_job returned
    adr_monitor,             \* the monitor thread: position, any_job_ongoing
    adr_response,            \* what handle returned
    adr_now,                 \* seconds since handle was called
    adr_heartbeats,          \* invocations of heartbeat_callback
    \* ---- bagit-uploader/validate ----
    bv_now,                  \* int(time.time())
    bv_advances,             \* clock steps taken
    bv_LAST_HEARTBEAT_TIME,  \* LAST_HEARTBEAT_TIME
    bv_invocation,           \* calls of handle so far
    bv_archives,             \* args["archives"] of the current call
    bv_pc,                   \* position of handle
    bv_index,                \* the archive the loop of handle is at
    bv_line,                 \* the tagmanifest line being verified
    bv_block,                \* blocks calculate_checksum has read
    bv_valid,                \* valid_bagit_archives
    bv_response,             \* what handle returned
    bv_post_failed,          \* a POST of this call raised or was not OK
    \* ---- lambdas/bagit-uploader-unpack-data-mounted ----
    udm_all_archives_unpacked,   \* _all_archives_unpacked
    udm_files_to_monitor_queue,  \* _files_to_monitor_queue
    udm_argsBatch,               \* the jobs of the request: their archives
    udm_handle_pc,               \* position of handle
    udm_job,                     \* the job handle is running, and where
    udm_unpack,                  \* the unpack_file tasks of that job
    udm_disk,                    \* size of every destination file
    udm_results,                 \* job_results
    udm_monitor,                 \* the monitor thread
    udm_monitored_files,         \* monitored_files
    udm_streamed,                \* totals of the measurements streamed, and
                                 \* per file: the bytes attributed to it since
                                 \* it was last counted, and its last count
    udm_response,                \* what handle returned
    udm_handles,                 \* the archive handles opened for the job
                                 \* being run: who opened, who used, open
    \* ---- lambdas/bagit-uploader-calculate-checksum ----
    lbcc_all_jobs_processed, \* _all_jobs_processed
    lbcc_measurements_queue, \* _measurements_queue
    lbcc_argsBatch,          \* the files of the request
    lbcc_handle_pc,          \* position of handle
    lbcc_jobs,               \* jobs: the (file, algorithm) tasks
    lbcc_job,                \* per task: position of run_job, chunks read
    lbcc_executed,           \* per task: what run_job returned
    lbcc_monitor,            \* the monitor thread
    lbcc_response,           \* what handle returned
    lbcc_enqueued,           \* measurements put on the queue so far
    lbcc_streamed,           \* measurements streamed so far
    \* ---- lambdas/bagit-uploader-validate-mounted ----
    vm_pc,                   \* position of handle
    vm_order,                \* the order this process iterates
                             \* AVAILABLE_CHECKSUM_ALGORITHMS in
    vm_jobs,                 \* jobs of argsBatch handled so far
    vm_archive,              \* the archive of the last job handled
    vm_results,              \* results
    vm_heartbeats,           \* invocations of heartbeat_callback
    vm_response,             \* what handle returned
    vmu_archive,             \* the archive the validators were applied to
    vmu_verdict,             \* what each validator did on it
    \* ---- lambdas/bagit-uploader-validate ----
    lv_archive,              \* the archive find_bagit_dir was called on
    lv_bagit_dir,            \* what find_bagit_dir did
    lv_checksum,             \* the last calculate_checksum call: the file,
                             \* and what it put on _measurements_queue
    \* ---- calculate_checksum of the two checksum lambdas ----
    ck_call,                 \* the last calculate_checksum call and its result
    \* ---- lambdas/bagit-uploader-calculate-checksum-mounted ----
    mcc_all_jobs_processed,  \* _all_jobs_processed (Event)
    mcc_measurements_queue,  \* _measurements_queue
    mcc_argsBatch,           \* the files of the request
    mcc_handle_pc,           \* position of handle
    mcc_tasks,               \* tasks: (file, algorithm, expected)
    mcc_jobs_executed,       \* per task: what verify_file_checksum gave
    mcc_results_batch,       \* results_batch of assemble_results
    mcc_monitor,             \* the monitor thread
    mcc_response,            \* what handle returned
    \* ---- bagit-uploader/unpack-data ----
    bud_now,                 \* int(time.time())
    bud_advances,            \* times the clock was seen to advance
    bud_LAST_HEARTBEAT_TIME, \* the module-level LAST_HEARTBEAT_TIME
    bud_posts,               \* heartbeat POSTs issued: time, whether r.ok
    bud_UPLOADED_FILES,      \* the module-level UPLOADED_FILES
    bud_invocation,          \* handle invocations started in this process
    bud_pc,                  \* position of handle
    bud_archive,             \* args["archive"] of the running invocation
    bud_index,               \* the next file of the listing to extract
    bud_extracted,           \* paths extracted by the running invocation
    bud_monitors,            \* the monitor_unpack threads of the process
    bud_disk,                \* size of every destination file
    bud_response,            \* what handle returned
    \* ---- bagit-uploader/fetch-files ----
    ff_filesToFetch,         \* args["filesToFetch"]
    ff_pc,                   \* position of handle
    ff_file,                 \* index of the file being fetched
    ff_retry,                \* index of the backoff of the attempt
    ff_logs,                 \* logs
    ff_uploaded_files,       \* uploaded_files
    ff_failed,               \* files that failed after their last retry
    ff_slept,                \* seconds slept in backoffs
    ff_response,             \* what handle returned
    \* ---- bagit-uploader/archive-destination-dm-cern ----
    dmc_pc,                  \* position of wait_until_archive_is_ready
    dmc_archive,             \* the archive at the provider: state, bytesArchived
    dmc_current_bytes_preserved, \* current_bytes_preserved
    dmc_latest_bytes_preserved, \* latest_bytes_preserved
    dmc_since_check,         \* now - latest_check_time
    dmc_since_heartbeat,     \* now - LAST_HEARTBEAT_TIME
    dmc_purge_status         \* purge_status

ccmVars == <<ccm_all_jobs_processed, ccm_measurements_queue, ccm_request,
             ccm_invocation, ccm_submitted, ccm_handle_pc, ccm_job, ccm_futures,
             ccm_completed, ccm_monitor, ccm_response, ccm_enqueued,
             ccm_streamed, ccm_now, ccm_heartbeats>>

\* what only the call of handle changes
ccmCall == <<ccm_request, ccm_invocation, ccm_submitted>>

ccrVars == <<ccr_all_jobs_processed, ccr_measurements_queue, ccr_request,
             ccr_invocation, ccr_submitted, ccr_handle_pc, ccr_job,
             ccr_futures, ccr_monitor, ccr_response, ccr_http, ccr_streamed>>

ccrCall == <<ccr_request, ccr_invocation, ccr_submitted>>

bccVars == <<bcc_now, bcc_advances, bcc_LAST_HEARTBEAT_TIME, bcc_posts,
             bcc_invocation, bcc_file, bcc_pc, bcc_algorithm, bcc_read,
             bcc_file_info, bcc_response>>

adrVars == <<adr_all_jobs_processed, adr_measurements_queue, adr_argsBatch,
             adr_handle_pc, adr_job, adr_results, adr_monitor, adr_response,
             adr_now, adr_heartbeats>>

bvVars == <<bv_now, bv_advances, bv_LAST_HEARTBEAT_TIME, bv_invocation,
            bv_archives, bv_pc, bv_index, bv_line, bv_block, bv_valid,
            bv_response, bv_post_failed>>

udmVars == <<udm_all_archives_unpacked, udm_files_to_monitor_queue,
             udm_argsBatch, udm_handle_pc, udm_job, udm_unpack, udm_disk,
             udm_results, udm_monitor, udm_monitored_files, udm_streamed,
             udm_response, udm_handles>>

lbccVars == <<lbcc_all_jobs_processed, lbcc_measurements_queue,
              lbcc_argsBatch, lbcc_handle_pc, lbcc_jobs, lbcc_job,
              lbcc_executed, lbcc_monitor, lbcc_response, lbcc_enqueued,
              lbcc_streamed>>

vmVars == <<vm_pc, vm_order, vm_jobs, vm_archive, vm_results, vm_heartbeats,
            vm_response, vmu_archive, vmu_verdict>>

lvVars == <<lv_archive, lv_bagit_dir, lv_checksum>>

ckVars == <<ck_call>>

mccVars == <<mcc_all_jobs_processed, mcc_measurements_queue, mcc_argsBatch,
             mcc_handle_pc, mcc_tasks, mcc_jobs_executed, mcc_results_batch,
             mcc_monitor, mcc_response>>

budVars == <<bud_now, bud_advances, bud_LAST_HEARTBEAT_TIME, bud_posts,
             bud_UPLOADED_FILES, bud_invocation, bud_pc, bud_archive,
             bud_index, bud_extracted, bud_monitors, bud_disk, bud_response>>

ffVars == <<ff_filesToFetch, ff_pc, ff_file, ff_retry, ff_logs,
            ff_uploaded_files, ff_failed, ff_slept, ff_response>>

dmcVars == <<dmc_pc, dmc_archive, dmc_current_bytes_preserved,
             dmc_latest_bytes_preserved, dmc_since_check,
             dmc_since_heartbeat, dmc_purge_status>>

vars == <<ccmVars, ccrVars, bccVars, adrVars, bvVars, udmVars, lbccVars,
          vmVars, lvVars, ckVars, mccVars, budVars, ffVars,
          dmcVars>>

\* The handlers share nothing: the steps of one leave the others as they are.
notCCM == <<ccrVars, bccVars, adrVars, bvVars, udmVars, lbccVars,
           vmVars, lvVars, ckVars, mccVars, budVars, ffVars,
          dmcVars>>
notCCR == <<ccmVars, bccVars, adrVars, bvVars, udmVars, lbccVars,
           vmVars, lvVars, ckVars, mccVars, budVars, ffVars,
          dmcVars>>
notBCC == <<ccmVars, ccrVars, adrVars, bvVars, udmVars, lbccVars,
           vmVars, lvVars, ckVars, mccVars, budVars, ffVars,
          dmcVars>>
notADR == <<ccmVars, ccrVars, bccVars, bvVars, udmVars, lbccVars,
           vmVars, lvVars, ckVars, mccVars, budVars, ffVars,
          dmcVars>>
notBV  == <<ccmVars, ccrVars, bccVars, adrVars, udmVars, lbccVars,
           vmVars, lvVars, ckVars, mccVars, budVars, ffVars,
          dmcVars>>
notUDM == <<ccmVars, ccrVars, bccVars, adrVars, bvVars, lbccVars,
           vmVars, lvVars, ckVars, mccVars, budVars, ffVars,
          dmcVars>>
notLBCC == <<ccmVars, ccrVars, bccVars, adrVars, bvVars, udmVars,
           vmVars, lvVars, ckVars, mccVars, budVars, ffVars,
          dmcVars>>
notVM == <<ccmVars, ccrVars, bccVars, adrVars, bvVars, udmVars, lbccVars,
          lvVars, ckVars, mccVars, budVars, ffVars, dmcVars>>
notLV == <<ccmVars, ccrVars, bccVars, adrVars, bvVars, udmVars, lbccVars,
          vmVars, ckVars, mccVars, budVars, ffVars, dmcVars>>
notCK == <<ccmVars, ccrVars, bccVars, adrVars, bvVars, udmVars, lbccVars,
          vmVars, lvVars, mccVars, budVars, ffVars, dmcVars>>
notMCC == <<ccmVars, ccrVars, bccVars, adrVars, bvVars, udmVars, lbccVars,
          vmVars, lvVars, ckVars, budVars, ffVars, dmcVars>>
notBUD == <<ccmVars, ccrVars, bccVars, adrVars, bvVars, udmVars, lbccVars,
          vmVars, lvVars, ckVars, mccVars, ffVars, dmcVars>>
notFF == <<ccmVars, ccrVars, bccVars, adrVars, bvVars, udmVars, lbccVars,
          vmVars, lvVars, ckVars, mccVars, budVars, dmcVars>>
notDMC == <<ccmVars, ccrVars, bccVars, adrVars, bvVars, udmVars, lbccVars,
          vmVars, lvVars, ckVars, mccVars, budVars, ffVars>>

(***************************************************************************)
(* Helpers.                                                                *)
(***************************************************************************)
SeqsUpTo(S, n) == UNION {[1..k -> S] : k \in 0..n}

Range(s) == {s[i] : i \in DOMAIN s}

NoResponse == [pending |-> TRUE]

AtmException(msg) == [exception |-> msg]

(***************************************************************************)
(*                  lambdas/calculate-checksum-mounted                     *)
(***************************************************************************)
CCM_AVAILABLE_CHECKSUM_ALGORITHMS == {"adler32", "md5"}

\* The algorithms the requests name: a supported one and one that is not.
CCM_RequestedAlgorithms == {"md5", "crc32"}

\* The mounted file system the jobs read: what os.path.isfile answers, how
\* long the chunks are that the read loop yields, and the fault the file
\* raises ("io": fd.read raises after the chunks, "xattr": xattr.set raises).
CCM_Files ==
    [ dir  |-> [isfile |-> FALSE, chunks |-> <<>>,  fault |-> "none"],
      data |-> [isfile |-> TRUE,  chunks |-> <<3>>, fault |-> "none"],
      bad  |-> [isfile |-> TRUE,  chunks |-> <<>>,  fault |-> "io"],
      ro   |-> [isfile |-> TRUE,  chunks |-> <<>>,  fault |-> "xattr"] ]

CCM_FileIds == DOMAIN CCM_Files

CCM_Requests ==
    [ algorithm   : CCM_RequestedAlgorithms,
      metadataKey : {"", "checksum"},
      argsBatch   : SeqsUpTo(CCM_FileIds, MaxJobs) ]

\* build_job_results
CCM_build_job_results(file_id, algorithm, checksum) ==
    [result |-> [file_id |-> file_id, algorithm |-> algorithm,
                 checksum |-> checksum]]

\* The digest of a file's content is left uninterpreted: one value per
\* algorithm and file.
CCM_calculate_checksum(algorithm, file_id) == <<algorithm, file_id>>

\* run_job as a function of its job: the value it returns.
CCM_run_job(req, file_id) ==
    LET f == CCM_Files[file_id] IN
    IF ~f.isfile
    THEN CCM_build_job_results(file_id, req.algorithm, "None")
    ELSE IF f.fault = "io"
    THEN AtmException("traceback")
    ELSE IF f.fault = "xattr" /\ req.metadataKey # ""
    THEN AtmException("Failed to set xattr")
    ELSE CCM_build_job_results(file_id, req.algorithm,
                               CCM_calculate_checksum(req.algorithm, file_id))

\* A measurement as the queue holds it; inv, job and seq tell apart the
\* measurements of one process.
CCM_Measurement(ts, value, inv, job, seq) ==
    [tsName |-> ts, value |-> value, inv |-> inv, job |-> job, seq |-> seq]

CCMInit ==
    /\ ccm_all_jobs_processed = FALSE
    /\ ccm_measurements_queue = <<>>
    /\ ccm_request = [algorithm |-> "md5", metadataKey |-> "", argsBatch |-> <<>>]
    /\ ccm_invocation = 0
    /\ ccm_submitted = 0
    /\ ccm_handle_pc = "idle"
    /\ ccm_job = <<>>
    /\ ccm_futures = <<>>
    /\ ccm_completed = <<>>
    /\ ccm_monitor = [pc |-> "none", any_job_ongoing |-> TRUE]
    /\ ccm_response = NoResponse
    /\ ccm_enqueued = {}
    /\ ccm_streamed = EmptyBag
    /\ ccm_now = 0
    /\ ccm_heartbeats = [calls |-> 0, last |-> -1]

\* The measurements of a drain as a bag.
SeqToBag(s) ==
    [m \in Range(s) |-> Cardinality({i \in DOMAIN s : s[i] = m})]

\* _measurements_queue.put(...) by job i of the running invocation.
CCM_put(ts, value, i) ==
    LET m == CCM_Measurement(ts, value, ccm_invocation, i,
                             Cardinality({e \in ccm_enqueued : e.job = i}))
    IN /\ ccm_measurements_queue' = Append(ccm_measurements_queue, m)
       /\ ccm_enqueued' = ccm_enqueued \cup {m}

\* The results in the order the jobs finished in.
CCM_results_as_completed(futures, completed) ==
    [k \in DOMAIN completed |-> futures[completed[k]]]

\* list(executor.map(run_job, jobs)): the results in the order of the jobs.
CCM_executor_map(futures, completed) ==
    [i \in DOMAIN futures |-> futures[i]]

\* A monitor that reports on every tick.
CCM_every_drain_reported(measurements) == TRUE

\* `if measurements:` of monitor_jobs.
CCM_drain_reported(measurements) == measurements # <<>>

\* handle up to the start of the worker pool (or its early return).
CCM_handle_call(req) ==
    /\ ccm_handle_pc \in {"idle", "returned"}
    /\ ccm_invocation < MaxInvocations
    /\ ccm_submitted + Len(req.argsBatch) <= MaxJobs
    /\ ccm_invocation' = ccm_invocation + 1
    /\ ccm_submitted' = ccm_submitted + Len(req.argsBatch)
    /\ ccm_request' = req
    /\ ccm_completed' = <<>>
    /\ ccm_enqueued' = {}
    /\ ccm_streamed' = EmptyBag
    /\ ccm_now' = 0
    /\ ccm_heartbeats' = [calls |-> 0, last |-> -1]
    /\ IF req.algorithm \notin CCM_AVAILABLE_CHECKSUM_ALGORITHMS
       THEN /\ ccm_response' = AtmException("algorithm is unsupported")
            /\ ccm_handle_pc' = "returned"
            /\ ccm_job' = <<>>
            /\ ccm_futures' = <<>>
            /\ ccm_monitor' = [pc |-> "none", any_job_ongoing |-> TRUE]
       ELSE /\ ccm_response' = NoResponse
            /\ ccm_handle_pc' = "running"
            /\ ccm_job' = [i \in DOMAIN req.argsBatch |->
                             [pc |-> "queued", read |-> 0]]
            /\ ccm_futures' = [i \in DOMAIN req.argsBatch |-> NoResponse]
            /\ ccm_monitor' = [pc |-> "wait", any_job_ongoing |-> TRUE]
    /\ UNCHANGED <<notCCM, ccm_all_jobs_processed, ccm_measurements_queue>>

CCM_handle ==
    \E req \in CCM_Requests : CCM_handle_call(req)

\* A job ends: its future gets the value run_job returns.
CCM_job_done(i) ==
    /\ ccm_futures' = [ccm_futures EXCEPT ![i] =
                         CCM_run_job(ccm_request, ccm_request.argsBatch[i])]
    /\ ccm_job' = [ccm_job EXCEPT ![i].pc = "done"]
    /\ ccm_completed' = Append(ccm_completed, i)

\* run_job of job i on anything but a regular file: the early return.
CCM_run_job_not_file ==
    \E i \in DOMAIN ccm_job :
        /\ ccm_handle_pc = "running"
        /\ ccm_job[i].pc = "queued"
        /\ ~CCM_Files[ccm_request.argsBatch[i]].isfile
        /\ CCM_job_done(i)
        /\ UNCHANGED <<notCCM, ccm_all_jobs_processed, ccm_measurements_queue,
                       ccm_handle_pc, ccm_monitor, ccm_response,
                       ccm_enqueued, ccm_streamed, ccm_now, ccm_heartbeats,
                       ccmCall>>

\* calculate_checksum of job i: one chunk read, hashed and measured (the
\* first one follows the isfile test and the open).
CCM_read_chunk ==
    \E i \in DOMAIN ccm_job :
        LET f == CCM_Files[ccm_request.argsBatch[i]] IN
        /\ ccm_handle_pc = "running"
        /\ ccm_job[i].pc \in {"queued", "reading"}
        /\ f.isfile
        /\ ccm_job[i].read < Len(f.chunks)
        /\ CCM_put("bytesProcessed", f.chunks[ccm_job[i].read + 1], i)
        /\ ccm_job' = [ccm_job EXCEPT ![i] =
                         [pc |-> "reading", read |-> @.read + 1]]
        /\ UNCHANGED <<notCCM, ccm_all_jobs_processed, ccm_handle_pc, ccm_futures,
                       ccm_completed, ccm_monitor, ccm_response,
                       ccm_streamed, ccm_now, ccm_heartbeats, ccmCall>>

\* run_job of job i after the last chunk: the read that ends the loop (or
\* raises), the xattr write, and the finally clause.
CCM_run_job_end ==
    \E i \in DOMAIN ccm_job :
        LET f == CCM_Files[ccm_request.argsBatch[i]] IN
        /\ ccm_handle_pc = "running"
        /\ ccm_job[i].pc \in {"queued", "reading"}
        /\ f.isfile
        /\ ccm_job[i].read = Len(f.chunks)
        /\ CCM_put("filesProcessed", 1, i)
        /\ CCM_job_done(i)
        /\ UNCHANGED <<notCCM, ccm_all_jobs_processed, ccm_handle_pc, ccm_monitor,
                       ccm_response, ccm_streamed, ccm_now, ccm_heartbeats,
                       ccmCall>>

\* handle: the pool has run every job; the event is set.
CCM_handle_set ==
    /\ ccm_handle_pc = "running"
    /\ \A i \in DOMAIN ccm_job : ccm_job[i].pc = "done"
    /\ ccm_all_jobs_processed' = TRUE
    /\ ccm_handle_pc' = "joining"
    /\ UNCHANGED <<notCCM, ccm_measurements_queue, ccm_job, ccm_futures,
                   ccm_completed, ccm_monitor, ccm_response, ccm_enqueued,
                   ccm_streamed, ccm_now, ccm_heartbeats, ccmCall>>

\* handle: jobs_monitor.join() returns and handle returns.
CCM_handle_return ==
    /\ ccm_handle_pc = "joining"
    /\ ccm_monitor.pc = "exited"
    /\ ccm_response' =
           [resultsBatch |-> CCM_executor_map(ccm_futures, ccm_completed)]
    /\ ccm_handle_pc' = "returned"
    /\ UNCHANGED <<notCCM, ccm_all_jobs_processed, ccm_measurements_queue, ccm_job,
                   ccm_futures, ccm_completed, ccm_monitor, ccm_enqueued,
                   ccm_streamed, ccm_now, ccm_heartbeats, ccmCall>>

\* monitor_jobs: _all_jobs_processed.wait(timeout=1) finds the event set.
CCM_monitor_wait_set ==
    /\ ccm_monitor.pc = "wait"
    /\ ccm_all_jobs_processed
    /\ ccm_monitor' = [pc |-> "drain", any_job_ongoing |-> FALSE]
    /\ UNCHANGED <<notCCM, ccm_all_jobs_processed, ccm_measurements_queue,
                   ccm_handle_pc, ccm_job, ccm_futures, ccm_completed,
                   ccm_response, ccm_enqueued, ccm_streamed, ccm_now,
                   ccm_heartbeats, ccmCall>>

\* monitor_jobs: the wait times out after one second.
CCM_monitor_wait_timeout ==
    /\ ccm_monitor.pc = "wait"
    /\ ~ccm_all_jobs_processed
    /\ ccm_now < MaxTicks
    /\ ccm_now' = ccm_now + 1
    /\ ccm_monitor' = [pc |-> "drain", any_job_ongoing |-> TRUE]
    /\ UNCHANGED <<notCCM, ccm_all_jobs_processed, ccm_measurements_queue,
                   ccm_handle_pc, ccm_job, ccm_futures, ccm_completed,
                   ccm_response, ccm_enqueued, ccm_streamed, ccm_heartbeats,
                   ccmCall>>

\* monitor_jobs: the drain, the report, and the loop test.
CCM_monitor_drain ==
    /\ ccm_monitor.pc = "drain"
    /\ ccm_measurements_queue' = <<>>
    /\ IF CCM_drain_reported(ccm_measurements_queue)
       THEN /\ ccm_streamed' =
                  ccm_streamed (+) SeqToBag(ccm_measurements_queue)
            /\ ccm_heartbeats' = [calls |-> ccm_heartbeats.calls + 1,
                                  last  |-> ccm_now]
       ELSE UNCHANGED <<ccm_streamed, ccm_heartbeats>>
    /\ ccm_monitor' = [ccm_monitor EXCEPT
                         !.pc = IF ccm_monitor.any_job_ongoing
                                THEN "wait" ELSE "exited"]
    /\ UNCHANGED <<notCCM, ccm_all_jobs_processed, ccm_handle_pc, ccm_job,
                   ccm_futures, ccm_completed, ccm_response, ccm_enqueued,
                   ccm_now, ccmCall>>

CCMNext ==
    \/ CCM_handle
    \/ CCM_run_job_not_file
    \/ CCM_read_chunk
    \/ CCM_run_job_end
    \/ CCM_handle_set
    \/ CCM_handle_return
    \/ CCM_monitor_wait_set
    \/ CCM_monitor_wait_timeout
    \/ CCM_monitor_drain

(***************************************************************************)
(*                    lambdas/calculate-checksum-rest                      *)
(***************************************************************************)
CCR_AVAILABLE_CHECKSUM_ALGORITHMS == {"md5", "shake_128"}

\* The algorithms the requests name: a digest, an extendable-output one
\* (hexdigest() without a length raises TypeError) and an unsupported one.
CCR_RequestedAlgorithms == {"md5", "shake_128", "crc32"}

\* The provider's files: the type the job args carry, the chunks that
\* iter_content yields, and which REST request is answered with an error.
CCR_Files ==
    [ dir  |-> [type |-> "DIR", chunks |-> <<>>,  get |-> "ok",  put |-> "ok"],
      data |-> [type |-> "REG", chunks |-> <<3>>, get |-> "ok",  put |-> "ok"],
      gone |-> [type |-> "REG", chunks |-> <<>>,  get |-> "404", put |-> "ok"],
      ro   |-> [type |-> "REG", chunks |-> <<2>>, get |-> "ok",  put |-> "403"] ]

CCR_FileIds == DOMAIN CCR_Files

CCR_Requests ==
    [ algorithm   : CCR_RequestedAlgorithms,
      metadataKey : {"", "checksum"},
      argsBatch   : SeqsUpTo(CCR_FileIds, MaxJobs) ]

\* build_job_results
CCR_build_job_results(file_id, algorithm, checksum) ==
    [result |-> [file_id |-> file_id, algorithm |-> algorithm,
                 checksum |-> checksum]]

\* The digest of a file's content, left uninterpreted.
CCR_calculate_checksum(algorithm, file_id) == <<algorithm, file_id>>

\* run_job without its `except Exception` clause: the exception leaves it.
CCR_run_job_no_catch_all(req, file_id, raised) ==
    IF raised = "RequestException" THEN AtmException("str(ex)")
    ELSE IF raised = "Exception" THEN [raised |-> "Exception"]
    ELSE CCR_build_job_results(file_id, req.algorithm,
                               CCR_calculate_checksum(req.algorithm, file_id))

\* The except and else clauses of run_job: what the job comes to, given the
\* exception its try block raised ("none" when it raised nothing).
CCR_run_job_outcome(req, file_id, raised) ==
    IF raised = "RequestException" THEN AtmException("str(ex)")
    ELSE IF raised = "Exception" THEN AtmException("traceback")
    ELSE CCR_build_job_results(file_id, req.algorithm,
                               CCR_calculate_checksum(req.algorithm, file_id))

CCRInit ==
    /\ ccr_all_jobs_processed = FALSE
    /\ ccr_measurements_queue = <<>>
    /\ ccr_request = [algorithm |-> "md5", metadataKey |-> "", argsBatch |-> <<>>]
    /\ ccr_invocation = 0
    /\ ccr_submitted = 0
    /\ ccr_handle_pc = "idle"
    /\ ccr_job = <<>>
    /\ ccr_futures = <<>>
    /\ ccr_monitor = [pc |-> "none", any_job_ongoing |-> TRUE]
    /\ ccr_response = NoResponse
    /\ ccr_http = {}
    /\ ccr_streamed = 0

\* handle up to the start of the worker pool (or its early return).
CCR_handle_call(req) ==
    /\ ccr_handle_pc \in {"idle", "returned", "raised"}
    /\ ccr_invocation < MaxInvocations
    /\ ccr_submitted + Len(req.argsBatch) <= MaxJobs
    /\ ccr_invocation' = ccr_invocation + 1
    /\ ccr_submitted' = ccr_submitted + Len(req.argsBatch)
    /\ ccr_request' = req
    /\ ccr_http' = {}
    /\ ccr_streamed' = 0
    /\ IF req.algorithm \notin CCR_AVAILABLE_CHECKSUM_ALGORITHMS
       THEN /\ ccr_response' = AtmException("algorithm is unsupported")
            /\ ccr_handle_pc' = "returned"
            /\ ccr_job' = <<>>
            /\ ccr_futures' = <<>>
            /\ ccr_monitor' = [pc |-> "none", any_job_ongoing |-> TRUE]
       ELSE /\ ccr_response' = NoResponse
            /\ ccr_handle_pc' = "running"
            /\ ccr_job' = [i \in DOMAIN req.argsBatch |->
                             [pc |-> "queued", read |-> 0, raised |-> "none"]]
            /\ ccr_futures' = [i \in DOMAIN req.argsBatch |-> NoResponse]
            /\ ccr_monitor' = [pc |-> "wait", any_job_ongoing |-> TRUE]
    /\ UNCHANGED <<notCCR, ccr_all_jobs_processed, ccr_measurements_queue>>

CCR_handle ==
    \E req \in CCR_Requests : CCR_handle_call(req)

\* run_job of job i with its test of the file type left out: the content is
\* requested for a file of any type.
CCR_run_job_no_type_test ==
    \E i \in DOMAIN ccr_job :
        LET file_id == ccr_request.argsBatch[i] IN
        /\ ccr_handle_pc = "running"
        /\ ccr_job[i].pc = "queued"
        /\ CCR_Files[file_id].type # "REG"
        /\ ccr_http' = ccr_http \cup {<<"GET", i, file_id, "content">>}
        /\ ccr_job' = [ccr_job EXCEPT ![i].pc = "streaming"]
        /\ UNCHANGED <<notCCR, ccrCall, ccr_all_jobs_processed,
                       ccr_measurements_queue, ccr_handle_pc, ccr_futures,
                       ccr_monitor, ccr_response, ccr_streamed>>

\* run_job of job i on a file whose type is not REG: the early return.
CCR_run_job_not_reg ==
    \E i \in DOMAIN ccr_job :
        LET file_id == ccr_request.argsBatch[i] IN
        /\ ccr_handle_pc = "running"
        /\ ccr_job[i].pc = "queued"
        /\ CCR_Files[file_id].type # "REG"
        /\ ccr_job' = [ccr_job EXCEPT ![i].pc = "done"]
        /\ ccr_futures' = [ccr_futures EXCEPT ![i] =
               CCR_build_job_results(file_id, ccr_request.algorithm, "None")]
        /\ UNCHANGED <<notCCR, ccrCall, ccr_all_jobs_processed,
                       ccr_measurements_queue, ccr_handle_pc, ccr_monitor,
                       ccr_response, ccr_http, ccr_streamed>>

\* get_file_data_stream of job i: the GET and raise_for_status.
CCR_get_file_data_stream ==
    \E i \in DOMAIN ccr_job :
        LET file_id == ccr_request.argsBatch[i] IN
        /\ ccr_handle_pc = "running"
        /\ ccr_job[i].pc = "queued"
        /\ CCR_Files[file_id].type = "REG"
        /\ ccr_http' = ccr_http \cup {<<"GET", i, file_id, "content">>}
        /\ ccr_job' = [ccr_job EXCEPT ![i] =
               IF CCR_Files[file_id].get = "ok"
               THEN [@ EXCEPT !.pc = "streaming"]
               ELSE [@ EXCEPT !.pc = "finally", !.raised = "RequestException"]]
        /\ UNCHANGED <<notCCR, ccrCall, ccr_all_jobs_processed,
                       ccr_measurements_queue, ccr_handle_pc, ccr_futures,
                       ccr_monitor, ccr_response, ccr_streamed>>

\* calculate_checksum of job i: one chunk hashed and measured.
CCR_read_chunk ==
    \E i \in DOMAIN ccr_job :
        LET chunks == CCR_Files[ccr_request.argsBatch[i]].chunks IN
        /\ ccr_job[i].pc = "streaming"
        /\ ccr_job[i].read < Len(chunks)
        /\ ccr_measurements_queue' =
               Append(ccr_measurements_queue,
                      [tsName |-> "bytesProcessed",
                       value |-> chunks[ccr_job[i].read + 1]])
        /\ ccr_job' = [ccr_job EXCEPT ![i].read = @ + 1]
        /\ UNCHANGED <<notCCR, ccrCall, ccr_all_jobs_processed, ccr_handle_pc,
                       ccr_futures, ccr_monitor, ccr_response, ccr_http,
                       ccr_streamed>>

\* calculate_checksum of job i after the last chunk: hexdigest(), then the
\* test of metadataKey.
CCR_checksum_end ==
    \E i \in DOMAIN ccr_job :
        /\ ccr_job[i].pc = "streaming"
        /\ ccr_job[i].read = Len(CCR_Files[ccr_request.argsBatch[i]].chunks)
        /\ ccr_job' = [ccr_job EXCEPT ![i] =
               IF ccr_request.algorithm = "shake_128"
               THEN [@ EXCEPT !.pc = "finally", !.raised = "Exception"]
               ELSE IF ccr_request.metadataKey # ""
               THEN [@ EXCEPT !.pc = "xattr"]
               ELSE [@ EXCEPT !.pc = "finally"]]
        /\ UNCHANGED <<notCCR, ccrCall, ccr_all_jobs_processed,
                       ccr_measurements_queue, ccr_handle_pc, ccr_futures,
                       ccr_monitor, ccr_response, ccr_http, ccr_streamed>>

\* set_file_xattr of job i: the PUT and raise_for_status.
CCR_set_file_xattr ==
    \E i \in DOMAIN ccr_job :
        LET file_id == ccr_request.argsBatch[i] IN
        /\ ccr_job[i].pc = "xattr"
        /\ ccr_http' = ccr_http \cup {<<"PUT", i, file_id, "metadata/xattrs">>}
        /\ ccr_job' = [ccr_job EXCEPT ![i] =
               IF CCR_Files[file_id].put = "ok"
               THEN [@ EXCEPT !.pc = "finally"]
               ELSE [@ EXCEPT !.pc = "finally", !.raised = "RequestException"]]
        /\ UNCHANGED <<notCCR, ccrCall, ccr_all_jobs_processed,
                       ccr_measurements_queue, ccr_handle_pc, ccr_futures,
                       ccr_monitor, ccr_response, ccr_streamed>>

\* run_job of job i: the except or else clause, and the finally clause.
CCR_run_job_finally ==
    \E i \in DOMAIN ccr_job :
        /\ ccr_job[i].pc = "finally"
        /\ ccr_measurements_queue' =
               Append(ccr_measurements_queue,
                      [tsName |-> "filesProcessed", value |-> 1])
        /\ ccr_futures' = [ccr_futures EXCEPT ![i] =
               CCR_run_job_outcome(ccr_request, ccr_request.argsBatch[i],
                                   ccr_job[i].raised)]
        /\ ccr_job' = [ccr_job EXCEPT ![i].pc = "done"]
        /\ UNCHANGED <<notCCR, ccrCall, ccr_all_jobs_processed, ccr_handle_pc,
                       ccr_monitor, ccr_response, ccr_http, ccr_streamed>>

\* handle: list(executor.map(...)) has every result, or raises what a job
\* raised; then the event is set.
CCR_handle_set ==
    /\ ccr_handle_pc = "running"
    /\ \A i \in DOMAIN ccr_job : ccr_job[i].pc = "done"
    /\ IF \E i \in DOMAIN ccr_futures : "raised" \in DOMAIN ccr_futures[i]
       THEN /\ ccr_handle_pc' = "raised"
            /\ UNCHANGED ccr_all_jobs_processed
       ELSE /\ ccr_handle_pc' = "joining"
            /\ ccr_all_jobs_processed' = TRUE
    /\ UNCHANGED <<notCCR, ccrCall, ccr_measurements_queue, ccr_job,
                   ccr_futures, ccr_monitor, ccr_response, ccr_http,
                   ccr_streamed>>

\* handle: jobs_monitor.join() returns and handle returns.
CCR_handle_return ==
    /\ ccr_handle_pc = "joining"
    /\ ccr_monitor.pc = "exited"
    /\ ccr_response' = [resultsBatch |-> ccr_futures]
    /\ ccr_handle_pc' = "returned"
    /\ UNCHANGED <<notCCR, ccrCall, ccr_all_jobs_processed,
                   ccr_measurements_queue, ccr_job, ccr_futures, ccr_monitor,
                   ccr_http, ccr_streamed>>

\* monitor_jobs: the wait ends, by the event or after its second.
CCR_monitor_wait ==
    /\ ccr_monitor.pc = "wait"
    /\ ccr_monitor' = [pc |-> "drain",
                       any_job_ongoing |-> ~ccr_all_jobs_processed]
    /\ UNCHANGED <<notCCR, ccrCall, ccr_all_jobs_processed,
                   ccr_measurements_queue, ccr_handle_pc, ccr_job,
                   ccr_futures, ccr_response, ccr_http, ccr_streamed>>

\* monitor_jobs: the drain, the report, and the loop test.
CCR_monitor_drain ==
    /\ ccr_monitor.pc = "drain"
    /\ ccr_measurements_queue' = <<>>
    /\ ccr_streamed' = ccr_streamed + Len(ccr_measurements_queue)
    /\ ccr_monitor' = [ccr_monitor EXCEPT
                         !.pc = IF ccr_monitor.any_job_ongoing
                                THEN "wait" ELSE "exited"]
    /\ UNCHANGED <<notCCR, ccrCall, ccr_all_jobs_processed, ccr_handle_pc,
                   ccr_job, ccr_futures, ccr_response, ccr_http>>

CCRNext ==
    \/ CCR_handle
    \/ CCR_run_job_not_reg
    \/ CCR_get_file_data_stream
    \/ CCR_read_chunk
    \/ CCR_checksum_end
    \/ CCR_set_file_xattr
    \/ CCR_run_job_finally
    \/ CCR_handle_set
    \/ CCR_handle_return
    \/ CCR_monitor_wait
    \/ CCR_monitor_drain

(***************************************************************************)
(*                   bagit-uploader/calculate-checksum                     *)
(***************************************************************************)
BCC_SUPPORTED_CHECKSUM_ALGORITHMS == <<"md5", "sha1", "sha256", "sha512", "adler32">>

BCC_HEARTBEAT_INTERVAL_SEC == 150

\* The mounted files: what os.path.isfile answers, the BLOCK_SIZE blocks of
\* the content, and per algorithm with a checksum.<algorithm>.expected xattr
\* whether that xattr equals the checksum of the content.
BCC_Files ==
    [ dir  |-> [isfile |-> FALSE, blocks |-> 0, expected |-> <<>>],
      good |-> [isfile |-> TRUE,  blocks |-> 1,
                expected |-> [md5 |-> TRUE]],
      both |-> [isfile |-> TRUE,  blocks |-> 0,
                expected |-> [md5 |-> TRUE, adler32 |-> TRUE]],
      bad  |-> [isfile |-> TRUE,  blocks |-> 0,
                expected |-> [sha1 |-> FALSE]] ]

\* What a heartbeat POST comes to: a 2xx response, another response, or an
\* exception of requests.post.
BCC_PostOutcomes == {"ok", "not_ok", "error"}

\* How far the clock is seen to advance between two steps.
BCC_ClockSteps == {1, BCC_HEARTBEAT_INTERVAL_SEC}

\* A heartbeat that never records the time of its POST.
BCC_time_not_recorded(ok, current_time, last) == last

\* heartbeat: LAST_HEARTBEAT_TIME after the POST.
BCC_last_heartbeat_time(ok, current_time, last) ==
    IF ok THEN current_time ELSE last

\* heartbeat(): the POST, if one is due, with the given outcome.
BCC_heartbeat(outcome) ==
    IF bcc_now - bcc_LAST_HEARTBEAT_TIME > BCC_HEARTBEAT_INTERVAL_SEC
    THEN /\ bcc_posts' = Append(bcc_posts,
                                [time |-> bcc_now, ok |-> outcome = "ok"])
         /\ bcc_LAST_HEARTBEAT_TIME' =
                BCC_last_heartbeat_time(outcome = "ok", bcc_now,
                                        bcc_LAST_HEARTBEAT_TIME)
    ELSE UNCHANGED <<bcc_posts, bcc_LAST_HEARTBEAT_TIME>>

\* Whether this call of heartbeat() raises: a POST is due and requests.post
\* raises.
BCC_heartbeat_raises(outcome) ==
    /\ bcc_now - bcc_LAST_HEARTBEAT_TIME > BCC_HEARTBEAT_INTERVAL_SEC
    /\ outcome = "error"

\* The first algorithm at or after index k for which the file has an
\* expected checksum; past the last index when there is none.
BCC_next_expected(file, k) ==
    LET n == Len(BCC_SUPPORTED_CHECKSUM_ALGORITHMS)
        hits == {j \in k..n : BCC_SUPPORTED_CHECKSUM_ALGORITHMS[j]
                                 \in DOMAIN BCC_Files[file].expected}
    IN IF hits = {} THEN n + 1
       ELSE CHOOSE j \in hits : \A h \in hits : j <= h

BCCInit ==
    /\ bcc_now = StartTime
    /\ bcc_advances = 0
    /\ bcc_LAST_HEARTBEAT_TIME = 0
    /\ bcc_posts = <<>>
    /\ bcc_invocation = 0
    /\ bcc_file = "dir"
    /\ bcc_pc = "idle"
    /\ bcc_algorithm = 1
    /\ bcc_read = 0
    /\ bcc_file_info = {}
    /\ bcc_response = NoResponse

\* Time passes.
BCC_clock ==
    \E d \in BCC_ClockSteps :
        /\ bcc_advances < MaxAdvances
        /\ bcc_advances' = bcc_advances + 1
        /\ bcc_now' = bcc_now + d
        /\ UNCHANGED <<notBCC, bcc_LAST_HEARTBEAT_TIME, bcc_posts,
                       bcc_invocation, bcc_file, bcc_pc, bcc_algorithm,
                       bcc_read, bcc_file_info, bcc_response>>

\* handle: the first heartbeat() and the isfile test.
BCC_handle_call ==
    \E file \in DOMAIN BCC_Files, outcome \in BCC_PostOutcomes :
        /\ bcc_pc \in {"idle", "returned", "raised"}
        /\ bcc_invocation < MaxInvocations
        /\ bcc_invocation' = bcc_invocation + 1
        /\ bcc_file' = file
        /\ BCC_heartbeat(outcome)
        /\ bcc_read' = 0
        /\ bcc_file_info' = {}
        /\ bcc_algorithm' = IF BCC_Files[file].isfile
                            THEN BCC_next_expected(file, 1)
                            ELSE Len(BCC_SUPPORTED_CHECKSUM_ALGORITHMS) + 1
        /\ IF BCC_heartbeat_raises(outcome)
           THEN /\ bcc_pc' = "raised"
                /\ bcc_response' = NoResponse
           ELSE /\ bcc_pc' = "algorithm"
                /\ bcc_response' = NoResponse
        /\ UNCHANGED <<notBCC, bcc_now, bcc_advances>>

\* handle: no algorithm is left; the checksums are returned.
BCC_handle_return ==
    /\ bcc_pc = "algorithm"
    /\ bcc_algorithm > Len(BCC_SUPPORTED_CHECKSUM_ALGORITHMS)
    /\ bcc_pc' = "returned"
    /\ bcc_response' = [checksums |-> bcc_file_info]
    /\ UNCHANGED <<notBCC, bcc_now, bcc_advances, bcc_LAST_HEARTBEAT_TIME,
                   bcc_posts, bcc_invocation, bcc_file, bcc_algorithm,
                   bcc_read, bcc_file_info>>

\* calculate_checksum: one turn of its loop, heartbeat() and fd.read.
BCC_calculate_checksum_step ==
    \E outcome \in BCC_PostOutcomes :
        /\ bcc_pc \in {"algorithm", "read"}
        /\ bcc_algorithm <= Len(BCC_SUPPORTED_CHECKSUM_ALGORITHMS)
        /\ BCC_heartbeat(outcome)
        /\ IF BCC_heartbeat_raises(outcome)
           THEN /\ bcc_pc' = "returned"
                /\ bcc_response' =
                       [exception |-> "Failed to open file and calculate checksum"]
                /\ UNCHANGED bcc_read
           ELSE IF bcc_read < BCC_Files[bcc_file].blocks
           THEN /\ bcc_pc' = "read"
                /\ bcc_read' = bcc_read + 1
                /\ UNCHANGED bcc_response
           ELSE /\ bcc_pc' = "compare"
                /\ UNCHANGED <<bcc_read, bcc_response>>
        /\ UNCHANGED <<notBCC, bcc_now, bcc_advances, bcc_invocation,
                       bcc_file, bcc_algorithm, bcc_file_info>>

\* handle: the calculated checksum is stored and compared with the expected.
BCC_compare ==
    LET algorithm == BCC_SUPPORTED_CHECKSUM_ALGORITHMS[bcc_algorithm] IN
    /\ bcc_pc = "compare"
    /\ bcc_read' = 0
    /\ IF BCC_Files[bcc_file].expected[algorithm]
       THEN /\ bcc_file_info' = bcc_file_info \cup {algorithm}
            /\ bcc_algorithm' = BCC_next_expected(bcc_file, bcc_algorithm + 1)
            /\ bcc_pc' = "algorithm"
            /\ UNCHANGED bcc_response
       ELSE /\ bcc_pc' = "returned"
            /\ bcc_response' = [exception |-> "Expected file checksum"]
            /\ UNCHANGED <<bcc_file_info, bcc_algorithm>>
    /\ UNCHANGED <<notBCC, bcc_now, bcc_advances, bcc_LAST_HEARTBEAT_TIME,
                   bcc_posts, bcc_invocation, bcc_file>>

BCCNext ==
    \/ BCC_clock
    \/ BCC_handle_call
    \/ BCC_handle_return
    \/ BCC_calculate_checksum_step
    \/ BCC_compare

(***************************************************************************)
(*              lambdas/bagit-uploader-archive-destination-rest            *)
(***************************************************************************)
ADR_ARCHIVE_STATUS_CHECK_INTERVAL_SEC == 5

\* The destination directories of the jobs.
ADR_Dirs == {"d1"}

\* What the provider answers to a status request: an error status, or the
\* archive's state together with whether its statistics grew since the last
\* request.
ADR_ArchiveInfos ==
    {[state |-> st, grew |-> g] :
        st \in {"building", "preserved", "failed"}, g \in BOOLEAN}

ADRInit ==
    /\ adr_all_jobs_processed = FALSE
    /\ adr_measurements_queue = <<>>
    /\ adr_argsBatch = <<>>
    /\ adr_handle_pc = "idle"
    /\ adr_job = <<>>
    /\ adr_results = <<>>
    /\ adr_monitor = [pc |-> "none", any_job_ongoing |-> TRUE]
    /\ adr_response = NoResponse
    /\ adr_now = 0
    /\ adr_heartbeats = 0

\* handle up to the start of the worker pool.
ADR_handle_call ==
    \E batch \in SeqsUpTo(ADR_Dirs, MaxJobs) :
        /\ adr_handle_pc = "idle"
        /\ adr_argsBatch' = batch
        /\ adr_handle_pc' = "running"
        /\ adr_job' = [i \in DOMAIN batch |->
                         [pc |-> "dataset", bytes_archived |-> 0,
                          files_archived |-> 0, polls |-> 0, wake |-> 0]]
        /\ adr_results' = [i \in DOMAIN batch |-> NoResponse]
        /\ adr_monitor' = [pc |-> "wait", any_job_ongoing |-> TRUE]
        /\ UNCHANGED <<notADR, adr_all_jobs_processed, adr_measurements_queue,
                       adr_response, adr_now, adr_heartbeats>>

\* run_job of job i: establish_dataset and create_archive, which either give
\* the archive's id or raise for an error status.
ADR_create_archive ==
    \E i \in DOMAIN adr_job, ok \in BOOLEAN :
        /\ adr_job[i].pc = "dataset"
        /\ IF ok
           THEN /\ adr_job' = [adr_job EXCEPT ![i].pc = "poll"]
                /\ UNCHANGED adr_results
           ELSE /\ adr_job' = [adr_job EXCEPT ![i].pc = "done"]
                /\ adr_results' = [adr_results EXCEPT ![i] =
                                     AtmException("str(ex)")]
        /\ UNCHANGED <<notADR, adr_all_jobs_processed, adr_measurements_queue,
                       adr_argsBatch, adr_handle_pc, adr_monitor,
                       adr_response, adr_now, adr_heartbeats>>

\* The measurements one turn of await_archive_preserved puts on the queue.
ADR_measured(info) ==
    IF info.grew
    THEN <<[tsName |-> "bytesArchived", value |-> 1],
           [tsName |-> "filesArchived", value |-> 1]>>
    ELSE <<>>

\* await_archive_preserved of job i: one status request and what follows it.
ADR_await_archive_preserved ==
    \E i \in DOMAIN adr_job, info \in ADR_ArchiveInfos :
        /\ adr_job[i].pc = "poll"
        /\ adr_job[i].polls < MaxPolls \/ info.state # "building"
        /\ adr_measurements_queue' = adr_measurements_queue \o ADR_measured(info)
        /\ LET job == [adr_job[i] EXCEPT
                         !.polls = @ + 1,
                         !.bytes_archived = @ + (IF info.grew THEN 1 ELSE 0),
                         !.files_archived = @ + (IF info.grew THEN 1 ELSE 0)]
           IN IF info.state = "preserved"
              THEN /\ adr_job' = [adr_job EXCEPT ![i] = [job EXCEPT !.pc = "done"]]
                   /\ adr_results' = [adr_results EXCEPT ![i] =
                                        [archiveId |-> adr_argsBatch[i]]]
              ELSE IF info.state = "building"
              THEN /\ adr_job' = [adr_job EXCEPT ![i] =
                          [job EXCEPT !.pc = "sleep",
                             !.wake = adr_now + ADR_ARCHIVE_STATUS_CHECK_INTERVAL_SEC]]
                   /\ UNCHANGED adr_results
              ELSE /\ adr_job' = [adr_job EXCEPT ![i] = [job EXCEPT !.pc = "done"]]
                   /\ adr_results' = [adr_results EXCEPT ![i] =
                                        AtmException("traceback")]
        /\ UNCHANGED <<notADR, adr_all_jobs_processed, adr_argsBatch,
                       adr_handle_pc, adr_monitor, adr_response, adr_now,
                       adr_heartbeats>>

\* await_archive_preserved of job i: time.sleep returns.
ADR_sleep_over ==
    \E i \in DOMAIN adr_job :
        /\ adr_job[i].pc = "sleep"
        /\ adr_now >= adr_job[i].wake
        /\ adr_job' = [adr_job EXCEPT ![i].pc = "poll"]
        /\ UNCHANGED <<notADR, adr_all_jobs_processed, adr_measurements_queue,
                       adr_argsBatch, adr_handle_pc, adr_results, adr_monitor,
                       adr_response, adr_now, adr_heartbeats>>

\* handle: the pool has run every job; the event is set.
ADR_handle_set ==
    /\ adr_handle_pc = "running"
    /\ \A i \in DOMAIN adr_job : adr_job[i].pc = "done"
    /\ adr_all_jobs_processed' = TRUE
    /\ adr_handle_pc' = "joining"
    /\ UNCHANGED <<notADR, adr_measurements_queue, adr_argsBatch, adr_job,
                   adr_results, adr_monitor, adr_response, adr_now,
                   adr_heartbeats>>

\* handle: jobs_monitor.join() returns and handle returns.
ADR_handle_return ==
    /\ adr_handle_pc = "joining"
    /\ adr_monitor.pc = "exited"
    /\ adr_response' = [resultsBatch |-> adr_results]
    /\ adr_handle_pc' = "returned"
    /\ UNCHANGED <<notADR, adr_all_jobs_processed, adr_measurements_queue,
                   adr_argsBatch, adr_job, adr_results, adr_monitor, adr_now,
                   adr_heartbeats>>

\* monitor_jobs: _all_jobs_processed.wait(timeout=1) finds the event set.
ADR_monitor_wait_set ==
    /\ adr_monitor.pc = "wait"
    /\ adr_all_jobs_processed
    /\ adr_monitor' = [pc |-> "drain", any_job_ongoing |-> FALSE]
    /\ UNCHANGED <<notADR, adr_all_jobs_processed, adr_measurements_queue,
                   adr_argsBatch, adr_handle_pc, adr_job, adr_results,
                   adr_response, adr_now, adr_heartbeats>>

\* monitor_jobs: the wait times out after one second.  The model lets time
\* pass only while a job sleeps: the requests themselves take none.
ADR_monitor_wait_timeout ==
    /\ adr_monitor.pc = "wait"
    /\ ~adr_all_jobs_processed
    /\ \E i \in DOMAIN adr_job :
           adr_job[i].pc = "sleep" /\ adr_now < adr_job[i].wake
    /\ adr_now' = adr_now + 1
    /\ adr_monitor' = [pc |-> "drain", any_job_ongoing |-> TRUE]
    /\ UNCHANGED <<notADR, adr_all_jobs_processed, adr_measurements_queue,
                   adr_argsBatch, adr_handle_pc, adr_job, adr_results,
                   adr_response, adr_heartbeats>>

\* monitor_jobs: the drain, the report, and the loop test.
ADR_monitor_drain ==
    /\ adr_monitor.pc = "drain"
    /\ adr_measurements_queue' = <<>>
    /\ adr_heartbeats' = IF adr_measurements_queue # <<>>
                         THEN adr_heartbeats + 1 ELSE adr_heartbeats
    /\ adr_monitor' = [adr_monitor EXCEPT
                         !.pc = IF adr_monitor.any_job_ongoing
                                THEN "wait" ELSE "exited"]
    /\ UNCHANGED <<notADR, adr_all_jobs_processed, adr_argsBatch,
                   adr_handle_pc, adr_job, adr_results, adr_response,
                   adr_now>>

ADRNext ==
    \/ ADR_handle_call
    \/ ADR_create_archive
    \/ ADR_await_archive_preserved
    \/ ADR_sleep_over
    \/ ADR_handle_set
    \/ ADR_handle_return
    \/ ADR_monitor_wait_set
    \/ ADR_monitor_wait_timeout
    \/ ADR_monitor_drain

(***************************************************************************)
(*                         bagit-uploader/validate                         *)
(***************************************************************************)
BV_HEARTBEAT_PERIOD == 150

\* The archives a request may name.  manifest holds, for every line of every
\* tagmanifest present, the blocks of the file it names and whether the
\* file's checksum is the expected one.
BV_Archives ==
    [dir   |-> [type |-> "DIR", ext |-> ".tar", bagit_dir |-> TRUE,
                payload |-> TRUE, manifest |-> <<>>],
     tar   |-> [type |-> "REG", ext |-> ".tar", bagit_dir |-> TRUE,
                payload |-> TRUE,
                manifest |-> <<[blocks |-> 1, matches |-> TRUE]>>],
     zip   |-> [type |-> "REG", ext |-> ".zip", bagit_dir |-> TRUE,
                payload |-> TRUE,
                manifest |-> <<[blocks |-> 0, matches |-> FALSE]>>],
     tgz   |-> [type |-> "REG", ext |-> ".tgz", bagit_dir |-> FALSE,
                payload |-> FALSE, manifest |-> <<>>],
     txt   |-> [type |-> "REG", ext |-> ".txt", bagit_dir |-> FALSE,
                payload |-> FALSE, manifest |-> <<>>]]

BV_ArchiveIds == DOMAIN BV_Archives

BV_PostOutcomes == {"ok", "not_ok", "error"}

BV_ClockSteps == {1, BV_HEARTBEAT_PERIOD}

\* heartbeat(): whether it posts at current_time.
BV_heartbeat_due(current_time, last) == current_time - last > BV_HEARTBEAT_PERIOD

\* heartbeat(): whether it raises, given what the POST did ("assert r.ok", or
\* the exception of requests.post itself).
BV_heartbeat_raises(due, outcome) == due /\ outcome # "ok"

\* heartbeat(): LAST_HEARTBEAT_TIME after the call.
BV_last_heartbeat_time(due, outcome, current_time, last) ==
    IF due /\ outcome = "ok" THEN current_time ELSE last

\* assert_valid_bagit_archive up to its first checksum: "skip" when an
\* assertion fails, "append" when it returns, "checksum" when there is a
\* tagmanifest line to verify.
BV_assert_valid_bagit_archive(archive) ==
    IF archive.type # "REG" THEN "skip"
    ELSE IF archive.ext \notin {".tar", ".zip", ".tgz", ".gz"} THEN "append"
    ELSE IF ~archive.bagit_dir \/ ~archive.payload THEN "skip"
    ELSE IF archive.manifest = <<>> THEN "append"
    ELSE "checksum"

BVInit ==
    /\ bv_now = StartTime
    /\ bv_advances = 0
    /\ bv_LAST_HEARTBEAT_TIME = 0
    /\ bv_invocation = 0
    /\ bv_archives = <<>>
    /\ bv_pc = "idle"
    /\ bv_index = 1
    /\ bv_line = 1
    /\ bv_block = 0
    /\ bv_valid = <<>>
    /\ bv_response = NoResponse
    /\ bv_post_failed = FALSE

\* time passes
BV_clock ==
    \E d \in BV_ClockSteps :
        /\ bv_advances < MaxAdvances
        /\ bv_now' = bv_now + d
        /\ bv_advances' = bv_advances + 1
        /\ UNCHANGED <<notBV, bv_LAST_HEARTBEAT_TIME, bv_invocation,
                       bv_archives, bv_pc, bv_index, bv_line, bv_block,
                       bv_valid, bv_response, bv_post_failed>>

\* handle up to its loop: the heartbeat of line 35 is outside every try.
BV_handle_call ==
    \E archives \in SeqsUpTo(BV_ArchiveIds, MaxJobs), outcome \in BV_PostOutcomes :
        LET due == BV_heartbeat_due(bv_now, bv_LAST_HEARTBEAT_TIME) IN
        /\ bv_pc \in {"idle", "returned", "raised"}
        /\ bv_invocation < MaxInvocations
        /\ due \/ outcome = "ok"
        /\ bv_invocation' = bv_invocation + 1
        /\ bv_archives' = archives
        /\ bv_LAST_HEARTBEAT_TIME' =
               BV_last_heartbeat_time(due, outcome, bv_now, bv_LAST_HEARTBEAT_TIME)
        /\ bv_post_failed' = BV_heartbeat_raises(due, outcome)
        /\ bv_pc' = IF BV_heartbeat_raises(due, outcome) THEN "raised" ELSE "loop"
        /\ bv_index' = 1
        /\ bv_line' = 1
        /\ bv_block' = 0
        /\ bv_valid' = <<>>
        /\ bv_response' = NoResponse
        /\ UNCHANGED <<notBV, bv_now, bv_advances>>

\* handle: one archive of the loop, up to its first checksum.
BV_handle_archive ==
    /\ bv_pc = "loop"
    /\ bv_index <= Len(bv_archives)
    /\ LET id == bv_archives[bv_index]
           verdict == BV_assert_valid_bagit_archive(BV_Archives[id])
       IN /\ bv_pc' = IF verdict = "checksum" THEN "checksum" ELSE "loop"
          /\ bv_index' = IF verdict = "checksum" THEN bv_index ELSE bv_index + 1
          /\ bv_valid' = IF verdict = "append"
                         THEN Append(bv_valid, id) ELSE bv_valid
    /\ bv_line' = 1
    /\ bv_block' = 0
    /\ UNCHANGED <<notBV, bv_now, bv_advances, bv_LAST_HEARTBEAT_TIME,
                   bv_invocation, bv_archives, bv_response, bv_post_failed>>

\* calculate_checksum: one turn of its loop, heartbeat() then read, and at
\* end of file the comparison with the expected checksum.  Whatever is raised
\* reaches the bare except of handle.
BV_calculate_checksum ==
    \E outcome \in BV_PostOutcomes :
        LET due == BV_heartbeat_due(bv_now, bv_LAST_HEARTBEAT_TIME)
            id == bv_archives[bv_index]
            manifest == BV_Archives[id].manifest
            entry == manifest[bv_line]
        IN
        /\ bv_pc = "checksum"
        /\ due \/ outcome = "ok"
        /\ bv_LAST_HEARTBEAT_TIME' =
               BV_last_heartbeat_time(due, outcome, bv_now, bv_LAST_HEARTBEAT_TIME)
        /\ bv_post_failed' = (bv_post_failed \/ BV_heartbeat_raises(due, outcome))
        /\ IF BV_heartbeat_raises(due, outcome) \/
              (bv_block = entry.blocks /\ ~entry.matches)
           THEN /\ bv_pc' = "loop"
                /\ bv_index' = bv_index + 1
                /\ UNCHANGED <<bv_line, bv_block, bv_valid>>
           ELSE IF bv_block < entry.blocks
           THEN /\ bv_block' = bv_block + 1
                /\ UNCHANGED <<bv_pc, bv_index, bv_line, bv_valid>>
           ELSE IF bv_line < Len(manifest)
           THEN /\ bv_line' = bv_line + 1
                /\ bv_block' = 0
                /\ UNCHANGED <<bv_pc, bv_index, bv_valid>>
           ELSE /\ bv_pc' = "loop"
                /\ bv_index' = bv_index + 1
                /\ bv_valid' = Append(bv_valid, id)
                /\ UNCHANGED <<bv_line, bv_block>>
        /\ UNCHANGED <<notBV, bv_now, bv_advances, bv_invocation, bv_archives,
                       bv_response>>

\* handle: the loop is over.
BV_handle_return ==
    /\ bv_pc = "loop"
    /\ bv_index > Len(bv_archives)
    /\ bv_response' = [validBagitArchives |-> bv_valid]
    /\ bv_pc' = "returned"
    /\ UNCHANGED <<notBV, bv_now, bv_advances, bv_LAST_HEARTBEAT_TIME,
                   bv_invocation, bv_archives, bv_index, bv_line, bv_block,
                   bv_valid, bv_post_failed>>

BVNext ==
    \/ BV_clock
    \/ BV_handle_call
    \/ BV_handle_archive
    \/ BV_calculate_checksum
    \/ BV_handle_return

(***************************************************************************)
(*                 lambdas/bagit-uploader-unpack-data-mounted              *)
(***************************************************************************)
\* The archives a request may name.  members are the files under data/: the
\* size the archive records for each, and the bytes its extraction writes
\* before it ends (fewer than size: the extraction raises).
UDM_Archives ==
    [good |-> [ext |-> ".tar",
               members |-> [a |-> [size |-> 2, extractable |-> 2],
                            c |-> [size |-> 1, extractable |-> 1]]],
     torn |-> [ext |-> ".zip",
               members |-> [b |-> [size |-> 2, extractable |-> 1]]],
     rar  |-> [ext |-> ".rar", members |-> <<>>]]

UDM_ArchiveIds == DOMAIN UDM_Archives

UDM_Paths == UNION {DOMAIN UDM_Archives[id].members : id \in UDM_ArchiveIds}

\* The archive whose member a destination path is.
UDM_member(path) ==
    LET id == CHOOSE x \in UDM_ArchiveIds : path \in DOMAIN UDM_Archives[x].members
    IN UDM_Archives[id].members[path]

RECURSIVE UDM_sum(_, _)
UDM_sum(f, S) ==
    IF S = {} THEN 0
    ELSE LET x == CHOOSE y \in S : TRUE IN f[x] + UDM_sum(f, S \ {x})

UDMInit ==
    /\ udm_all_archives_unpacked = FALSE
    /\ udm_files_to_monitor_queue = <<>>
    /\ udm_argsBatch = <<>>
    /\ udm_handle_pc = "idle"
    /\ udm_job = [index |-> 1, pc |-> "open"]
    /\ udm_unpack = <<>>
    /\ udm_disk = [p \in UDM_Paths |-> 0]
    /\ udm_results = <<>>
    /\ udm_monitor = [pc |-> "none", any_unpacking_ongoing |-> TRUE]
    /\ udm_monitored_files = <<>>
    /\ udm_streamed = [bytesUnpacked |-> 0, filesUnpacked |-> 0,
                       attributed |-> [p \in UDM_Paths |-> 0],
                       counted |-> [p \in UDM_Paths |->
                                       [times |-> 0, bytes |-> 0, size |-> 0]]]
    /\ udm_response = NoResponse
    /\ udm_handles = {}

\* handle: the monitor thread is started.
UDM_handle_call ==
    \E batch \in SeqsUpTo(UDM_ArchiveIds, MaxJobs) :
        /\ udm_handle_pc = "idle"
        /\ udm_argsBatch' = batch
        /\ udm_handle_pc' = "running"
        /\ udm_monitor' = [pc |-> "wait", any_unpacking_ongoing |-> TRUE]
        /\ UNCHANGED <<notUDM, udm_all_archives_unpacked,
                       udm_files_to_monitor_queue, udm_job, udm_unpack,
                       udm_disk, udm_results, udm_monitored_files,
                       udm_streamed, udm_response,
                   udm_handles>>

\* run_job of the next job, in the thread of handle: open_archive and the
\* listing of unpack_bagit_archive, up to the start of the worker pool: the
\* `with open_archive` block is left, which closes the handle it listed.
UDM_unpack_bagit_archive ==
    /\ udm_handle_pc = "running"
    /\ udm_job.pc = "open"
    /\ udm_job.index <= Len(udm_argsBatch)
    /\ LET archive == UDM_Archives[udm_argsBatch[udm_job.index]] IN
       IF archive.ext \in {".zip", ".tar", ".tgz", ".gz"}
       THEN /\ udm_unpack' = [p \in DOMAIN archive.members |-> "queued"]
            /\ udm_job' = [udm_job EXCEPT !.pc = "pool"]
            /\ udm_handles' = {[opened_by |-> "handle", used_by |-> {"handle"},
                                open |-> FALSE]}
            /\ UNCHANGED udm_results
       ELSE /\ udm_results' = Append(udm_results, AtmException("str(ex)"))
            /\ udm_job' = [udm_job EXCEPT !.index = @ + 1]
            /\ UNCHANGED <<udm_unpack, udm_handles>>
    /\ UNCHANGED <<notUDM, udm_all_archives_unpacked,
                   udm_files_to_monitor_queue, udm_argsBatch, udm_handle_pc,
                   udm_disk, udm_monitor, udm_monitored_files, udm_streamed,
                   udm_response>>

\* unpack_file taking the archive that unpack_bagit_archive listed, instead
\* of opening its own.
UDM_unpack_file_shared_handle ==
    \E p \in DOMAIN udm_unpack :
        /\ udm_unpack[p] = "queued"
        /\ udm_files_to_monitor_queue' =
               Append(udm_files_to_monitor_queue,
                      [file_path |-> p, target_size |-> UDM_member(p).size])
        /\ udm_disk' = [udm_disk EXCEPT ![p] = 0]
        /\ udm_unpack' = [udm_unpack EXCEPT ![p] =
               IF UDM_member(p).extractable = 0 THEN "raised" ELSE "extracting"]
        /\ udm_handles' =
               {IF h.opened_by = "handle"
                THEN [h EXCEPT !.used_by = @ \cup {p}, !.open = TRUE]
                ELSE h : h \in udm_handles}
        /\ UNCHANGED <<notUDM, udm_all_archives_unpacked, udm_argsBatch,
                       udm_handle_pc, udm_job, udm_results, udm_monitor,
                       udm_monitored_files, udm_streamed, udm_response>>

\* unpack_file: the task opens the archive, the file is registered with the
\* monitor, then its extraction starts: the destination file is created
\* empty.
UDM_unpack_file ==
    \E p \in DOMAIN udm_unpack :
        /\ udm_unpack[p] = "queued"
        /\ udm_files_to_monitor_queue' =
               Append(udm_files_to_monitor_queue,
                      [file_path |-> p, target_size |-> UDM_member(p).size])
        /\ udm_disk' = [udm_disk EXCEPT ![p] = 0]
        /\ udm_unpack' = [udm_unpack EXCEPT ![p] =
               IF UDM_member(p).extractable = 0 THEN "raised" ELSE "extracting"]
        /\ udm_handles' = udm_handles \cup
               {[opened_by |-> p, used_by |-> {p},
                 open |-> UDM_member(p).extractable # 0]}
        /\ UNCHANGED <<notUDM, udm_all_archives_unpacked, udm_argsBatch,
                       udm_handle_pc, udm_job, udm_results, udm_monitor,
                       udm_monitored_files, udm_streamed, udm_response>>

\* archive.unpack_file: the extraction writes on, and ends after the bytes
\* it can deliver; the `with open_archive` block of unpack_file is left then.
UDM_extract ==
    \E p \in DOMAIN udm_unpack :
        /\ udm_unpack[p] = "extracting"
        /\ udm_disk' = [udm_disk EXCEPT ![p] = @ + 1]
        /\ udm_unpack' = [udm_unpack EXCEPT ![p] =
               IF udm_disk[p] + 1 < UDM_member(p).extractable THEN "extracting"
               ELSE IF UDM_member(p).extractable < UDM_member(p).size
               THEN "raised" ELSE "returned"]
        /\ udm_handles' =
               {IF h.opened_by = p
                THEN [h EXCEPT !.open = udm_disk[p] + 1 < UDM_member(p).extractable]
                ELSE h : h \in udm_handles}
        /\ UNCHANGED <<notUDM, udm_all_archives_unpacked,
                       udm_files_to_monitor_queue, udm_argsBatch,
                       udm_handle_pc, udm_job, udm_results, udm_monitor,
                       udm_monitored_files, udm_streamed, udm_response>>

\* run_job: the pool has ended every task; the job's result.
UDM_run_job ==
    /\ udm_handle_pc = "running"
    /\ udm_job.pc = "pool"
    /\ \A p \in DOMAIN udm_unpack : udm_unpack[p] \in {"raised", "returned"}
    /\ udm_results' = Append(udm_results,
           IF \E p \in DOMAIN udm_unpack : udm_unpack[p] = "raised"
           THEN AtmException("traceback")
           ELSE [unpackedFiles |-> DOMAIN udm_unpack])
    /\ udm_job' = [index |-> udm_job.index + 1, pc |-> "open"]
    /\ udm_unpack' = <<>>
    /\ udm_handles' = {}
    /\ UNCHANGED <<notUDM, udm_all_archives_unpacked,
                   udm_files_to_monitor_queue, udm_argsBatch, udm_handle_pc,
                   udm_disk, udm_monitor, udm_monitored_files, udm_streamed,
                   udm_response>>

\* handle: every job has its result; the event is set.
UDM_handle_set ==
    /\ udm_handle_pc = "running"
    /\ udm_job.index > Len(udm_argsBatch)
    /\ udm_all_archives_unpacked' = TRUE
    /\ udm_handle_pc' = "joining"
    /\ UNCHANGED <<notUDM, udm_files_to_monitor_queue, udm_argsBatch, udm_job,
                   udm_unpack, udm_disk, udm_results, udm_monitor,
                   udm_monitored_files, udm_streamed, udm_response,
                   udm_handles>>

\* handle: unpacking_monitor.join() returns and handle returns.
UDM_handle_return ==
    /\ udm_handle_pc = "joining"
    /\ udm_monitor.pc = "exited"
    /\ udm_response' = [resultsBatch |-> udm_results]
    /\ udm_handle_pc' = "returned"
    /\ UNCHANGED <<notUDM, udm_all_archives_unpacked,
                   udm_files_to_monitor_queue, udm_argsBatch, udm_job,
                   udm_unpack, udm_disk, udm_results, udm_monitor,
                   udm_monitored_files, udm_streamed,
                   udm_handles>>

\* monitor_files_unpacking: _all_archives_unpacked.wait(timeout=1) returns,
\* at once when the event is set and after the timeout when it is not.
UDM_monitor_wait ==
    /\ udm_monitor.pc = "wait"
    /\ udm_monitor' = [pc |-> "scan",
                       any_unpacking_ongoing |-> ~udm_all_archives_unpacked]
    /\ UNCHANGED <<notUDM, udm_all_archives_unpacked,
                   udm_files_to_monitor_queue, udm_argsBatch, udm_handle_pc,
                   udm_job, udm_unpack, udm_disk, udm_results,
                   udm_monitored_files, udm_streamed, udm_response,
                   udm_handles>>

\* monitored_files once the queue has been drained into it.
UDM_registered(monitored, q) ==
    LET queued == {q[k].file_path : k \in DOMAIN q} IN
    [p \in (DOMAIN monitored) \cup queued |->
        IF p \in queued
        THEN [target_size |-> UDM_member(p).size, current_size |-> 0]
        ELSE monitored[p]]

\* The files the scan leaves in monitored_files: those below their target.
UDM_still_monitored(registered, disk) ==
    {p \in DOMAIN registered : disk[p] < registered[p].target_size}

\* monitor_files_unpacking: the rest of one turn of its loop, and the loop
\* test.
UDM_monitor_scan ==
    /\ udm_monitor.pc = "scan"
    /\ LET registered == UDM_registered(udm_monitored_files,
                                        udm_files_to_monitor_queue)
           kept == UDM_still_monitored(registered, udm_disk)
           bytes_unpacked ==
               UDM_sum([p \in DOMAIN registered |->
                           udm_disk[p] - registered[p].current_size],
                       DOMAIN registered)
           files_unpacked == Cardinality((DOMAIN registered) \ kept)
       IN /\ udm_monitored_files' =
                 [p \in kept |-> [registered[p] EXCEPT
                                     !.current_size = udm_disk[p]]]
          /\ udm_streamed' =
                 [bytesUnpacked |-> udm_streamed.bytesUnpacked + bytes_unpacked,
                  filesUnpacked |-> udm_streamed.filesUnpacked + files_unpacked,
                  attributed |->
                      [p \in UDM_Paths |->
                          IF p \notin DOMAIN registered
                          THEN udm_streamed.attributed[p]
                          ELSE IF p \notin kept THEN 0
                          ELSE udm_streamed.attributed[p] + udm_disk[p]
                                   - registered[p].current_size],
                  counted |->
                      [p \in UDM_Paths |->
                          IF p \in (DOMAIN registered) \ kept
                          THEN [times |-> udm_streamed.counted[p].times + 1,
                                bytes |-> udm_streamed.attributed[p]
                                              + udm_disk[p]
                                              - registered[p].current_size,
                                size |-> udm_disk[p]]
                          ELSE udm_streamed.counted[p]]]
          /\ udm_monitor' = [udm_monitor EXCEPT !.pc =
                 IF udm_monitor.any_unpacking_ongoing \/ kept # {}
                 THEN "wait" ELSE "exited"]
    /\ udm_files_to_monitor_queue' = <<>>
    /\ UNCHANGED <<notUDM, udm_all_archives_unpacked, udm_argsBatch,
                   udm_handle_pc, udm_job, udm_unpack, udm_disk, udm_results,
                   udm_response,
                   udm_handles>>

UDMNext ==
    \/ UDM_handle_call
    \/ UDM_unpack_bagit_archive
    \/ UDM_unpack_file
    \/ UDM_extract
    \/ UDM_run_job
    \/ UDM_handle_set
    \/ UDM_handle_return
    \/ UDM_monitor_wait
    \/ UDM_monitor_scan

(***************************************************************************)
(*                 lambdas/bagit-uploader-calculate-checksum               *)
(***************************************************************************)
\* The files a request may name: whether the path is a regular file, the
\* algorithms with a "checksum.<algorithm>.expected" attribute in the order
\* generate_jobs_to_execute meets them, the chunks read, and the algorithms
\* whose calculated checksum differs from the expected one.
LBCC_Files ==
    [dir  |-> [isfile |-> FALSE, expected |-> <<>>, chunks |-> 0,
               mismatch |-> {}],
     one  |-> [isfile |-> TRUE, expected |-> <<"md5">>, chunks |-> 1,
               mismatch |-> {}],
     two  |-> [isfile |-> TRUE, expected |-> <<"adler32", "md5">>,
               chunks |-> 1, mismatch |-> {}],
     bad  |-> [isfile |-> TRUE, expected |-> <<"md5">>, chunks |-> 0,
               mismatch |-> {"md5"}]]

LBCC_FileIds == DOMAIN LBCC_Files

\* generate_jobs_to_execute: the (file_path, algorithm) tasks of a batch.
RECURSIVE LBCC_generate_jobs_to_execute(_)
LBCC_generate_jobs_to_execute(argsBatch) ==
    IF argsBatch = <<>> THEN <<>>
    ELSE LET file == LBCC_Files[Head(argsBatch)]
             algorithms == IF file.isfile THEN file.expected ELSE <<>>
         IN [k \in DOMAIN algorithms |->
                [file_path |-> Head(argsBatch), algorithm |-> algorithms[k]]]
            \o LBCC_generate_jobs_to_execute(Tail(argsBatch))

\* run_job once the file has been read: the task's result.
LBCC_run_job(job) ==
    IF job.algorithm \in LBCC_Files[job.file_path].mismatch
    THEN AtmException("str(ex)")
    ELSE [file_path |-> job.file_path,
          file_info |-> [algorithm |-> job.algorithm, status |-> "ok"]]

\* The file paths of the results, in the order of their first occurrence.
RECURSIVE LBCC_keys(_)
LBCC_keys(results) ==
    IF results = <<>> THEN <<>>
    ELSE LET rest == LBCC_keys(SubSeq(results, 1, Len(results) - 1))
             key == results[Len(results)].file_path
         IN IF key \in Range(rest) THEN rest ELSE Append(rest, key)

\* generate_jobs_results: one entry per file path, holding the algorithms
\* reported for it.  Defined for results that are all (path, info) pairs.
LBCC_generate_jobs_results(results) ==
    LET keys == LBCC_keys(results) IN
    [k \in DOMAIN keys |->
        [checksums |-> {results[j].file_info.algorithm :
                           j \in {i \in DOMAIN results :
                                     results[i].file_path = keys[k]}}]]

\* The orders as_completed may give the finished tasks in.
LBCC_as_completed(n) ==
    {perm \in [1..n -> 1..n] : \A i, j \in 1..n : i # j => perm[i] # perm[j]}

LBCCInit ==
    /\ lbcc_all_jobs_processed = FALSE
    /\ lbcc_measurements_queue = <<>>
    /\ lbcc_argsBatch = <<>>
    /\ lbcc_handle_pc = "idle"
    /\ lbcc_jobs = <<>>
    /\ lbcc_job = <<>>
    /\ lbcc_executed = <<>>
    /\ lbcc_monitor = [pc |-> "none", any_job_ongoing |-> TRUE]
    /\ lbcc_response = NoResponse
    /\ lbcc_enqueued = 0
    /\ lbcc_streamed = 0

\* handle up to the submission of the tasks.
LBCC_handle_call ==
    \E batch \in SeqsUpTo(LBCC_FileIds, MaxJobs) :
        LET jobs == LBCC_generate_jobs_to_execute(batch) IN
        /\ lbcc_handle_pc = "idle"
        /\ lbcc_argsBatch' = batch
        /\ lbcc_jobs' = jobs
        /\ lbcc_job' = [k \in DOMAIN jobs |-> [pc |-> "reading", read |-> 0]]
        /\ lbcc_executed' = [k \in DOMAIN jobs |-> NoResponse]
        /\ lbcc_handle_pc' = "running"
        /\ lbcc_monitor' = [pc |-> "wait", any_job_ongoing |-> TRUE]
        /\ UNCHANGED <<notLBCC, lbcc_all_jobs_processed,
                       lbcc_measurements_queue, lbcc_response, lbcc_enqueued,
                       lbcc_streamed>>

\* calculate_checksum of task k: one chunk is read and its measurement put.
LBCC_read_chunk ==
    \E k \in DOMAIN lbcc_job :
        /\ lbcc_job[k].pc = "reading"
        /\ lbcc_job[k].read < LBCC_Files[lbcc_jobs[k].file_path].chunks
        /\ lbcc_job' = [lbcc_job EXCEPT ![k].read = @ + 1]
        /\ lbcc_measurements_queue' =
               Append(lbcc_measurements_queue,
                      [tsName |-> lbcc_jobs[k].algorithm, value |-> 1])
        /\ lbcc_enqueued' = lbcc_enqueued + 1
        /\ UNCHANGED <<notLBCC, lbcc_all_jobs_processed, lbcc_argsBatch,
                       lbcc_handle_pc, lbcc_jobs, lbcc_executed, lbcc_monitor,
                       lbcc_response, lbcc_streamed>>

\* run_job of task k: the file is read; the comparison and the result.
LBCC_run_job_end ==
    \E k \in DOMAIN lbcc_job :
        /\ lbcc_job[k].pc = "reading"
        /\ lbcc_job[k].read = LBCC_Files[lbcc_jobs[k].file_path].chunks
        /\ lbcc_job' = [lbcc_job EXCEPT ![k].pc = "done"]
        /\ lbcc_executed' = [lbcc_executed EXCEPT ![k] = LBCC_run_job(lbcc_jobs[k])]
        /\ UNCHANGED <<notLBCC, lbcc_all_jobs_processed,
                       lbcc_measurements_queue, lbcc_argsBatch, lbcc_handle_pc,
                       lbcc_jobs, lbcc_monitor, lbcc_response, lbcc_enqueued,
                       lbcc_streamed>>

\* handle: the pool is over, the results are collected and turned into the
\* batch's results (the loop of generate_jobs_results unpacks every result
\* as a pair and raises on an AtmException), then the event is set.
LBCC_handle_set ==
    \E perm \in LBCC_as_completed(Len(lbcc_jobs)) :
        LET results == [i \in DOMAIN lbcc_jobs |-> lbcc_executed[perm[i]]] IN
        /\ lbcc_handle_pc = "running"
        /\ \A k \in DOMAIN lbcc_job : lbcc_job[k].pc = "done"
        /\ IF \E i \in DOMAIN results : results[i] = AtmException("str(ex)")
           THEN /\ lbcc_handle_pc' = "raised"
                /\ UNCHANGED <<lbcc_all_jobs_processed, lbcc_response>>
           ELSE /\ lbcc_handle_pc' = "set"
                /\ lbcc_all_jobs_processed' = TRUE
                /\ lbcc_response' =
                       [resultsBatch |-> LBCC_generate_jobs_results(results)]
        /\ UNCHANGED <<notLBCC, lbcc_measurements_queue, lbcc_argsBatch,
                       lbcc_jobs, lbcc_job, lbcc_executed, lbcc_monitor,
                       lbcc_enqueued, lbcc_streamed>>

\* handle returns: nothing waits for the monitor thread.
LBCC_handle_return ==
    /\ lbcc_handle_pc = "set"
    /\ lbcc_handle_pc' = "returned"
    /\ UNCHANGED <<notLBCC, lbcc_all_jobs_processed, lbcc_measurements_queue,
                   lbcc_argsBatch, lbcc_jobs, lbcc_job, lbcc_executed,
                   lbcc_monitor, lbcc_response, lbcc_enqueued, lbcc_streamed>>

\* monitor_jobs: _all_jobs_processed.wait(timeout=1) returns, at once when
\* the event is set and after the timeout when it is not.
LBCC_monitor_wait ==
    /\ lbcc_monitor.pc = "wait"
    /\ lbcc_monitor' = [pc |-> "drain",
                        any_job_ongoing |-> ~lbcc_all_jobs_processed]
    /\ UNCHANGED <<notLBCC, lbcc_all_jobs_processed, lbcc_measurements_queue,
                   lbcc_argsBatch, lbcc_handle_pc, lbcc_jobs, lbcc_job,
                   lbcc_executed, lbcc_response, lbcc_enqueued, lbcc_streamed>>

\* monitor_jobs: the drain, the report, and the loop test.
LBCC_monitor_drain ==
    /\ lbcc_monitor.pc = "drain"
    /\ lbcc_measurements_queue' = <<>>
    /\ lbcc_streamed' = lbcc_streamed + Len(lbcc_measurements_queue)
    /\ lbcc_monitor' = [lbcc_monitor EXCEPT !.pc =
           IF lbcc_monitor.any_job_ongoing THEN "wait" ELSE "exited"]
    /\ UNCHANGED <<notLBCC, lbcc_all_jobs_processed, lbcc_argsBatch,
                   lbcc_handle_pc, lbcc_jobs, lbcc_job, lbcc_executed,
                   lbcc_response, lbcc_enqueued>>

LBCCNext ==
    \/ LBCC_handle_call
    \/ LBCC_read_chunk
    \/ LBCC_run_job_end
    \/ LBCC_handle_set
    \/ LBCC_handle_return
    \/ LBCC_monitor_wait
    \/ LBCC_monitor_drain

(***************************************************************************)
(*                 lambdas/bagit-uploader-validate-mounted                 *)
(***************************************************************************)
\* Paths are held as the tokens "/" splits them into: "bag/data/" is
\* <<"bag", "data", "">>.  The algorithms followed are two of
\* AVAILABLE_CHECKSUM_ALGORITHMS.
VM_Algorithms == {"md5", "sha256"}

\* The bags a request may name: the archive format, bagit.txt (absent, two
\* well-formed lines, or not), the data directory entry, the files under
\* data/, the paths of fetch.txt, the paths manifest-md5.txt references as it
\* writes them (each <<>> when the file is absent, else <<paths>>), whether the payload files still have the content the manifest
\* recorded, and per algorithm the tagmanifest (absent, or one entry for
\* bagit.txt whose checksum matches or not).
VM_Bags ==
    [type : {"REG"}, ext : {".zip", ".tar"},
     bagit_txt : {"absent", "ok", "bad"},
     data_dir : BOOLEAN,
     data_files : {{}, {"f"}},
     fetch : {<<>>, <<{<<"data", "g">>}>>},
     manifest : {<<>>, <<{}>>, <<{<<"data", "f">>}>>,
                 <<{<<"bag", "data", "f">>}>>, <<{<<"data", "g">>}>>,
                 <<{<<"data", "f">>, <<"data", "g">>}>>},
     intact : BOOLEAN,
     tagmanifest : [VM_Algorithms -> {"absent", "match", "mismatch"}]]

\* The archives a request may name: the bags without fetch.txt and
\* tagmanifests, a directory, and an archive of another format.
VM_Archives ==
    LET plain == {b \in VM_Bags :
                     /\ b.fetch = <<>>
                     /\ \A alg \in VM_Algorithms : b.tagmanifest[alg] = "absent"}
        bag == CHOOSE b \in plain : b.bagit_txt = "ok"
    IN plain \cup {[bag EXCEPT !.type = "DIR"], [bag EXCEPT !.ext = ".rar"]}

\* list_files: archive.namelist() / archive.getnames().
VM_list_files(archive) ==
    (IF archive.bagit_txt # "absent" THEN {<<"bag", "bagit.txt">>} ELSE {})
    \cup (IF archive.data_dir
          THEN {IF archive.ext = ".zip" THEN <<"bag", "data", "">>
                ELSE <<"bag", "data">>}
          ELSE {})
    \cup {<<"bag", "data", f>> : f \in archive.data_files}
    \cup (IF archive.fetch # <<>> THEN {<<"bag", "fetch.txt">>} ELSE {})
    \cup (IF archive.manifest # <<>>
          THEN {<<"bag", "manifest-md5.txt">>} ELSE {})
    \cup {<<"bag", "tagmanifest-" \o alg \o ".txt">> :
             alg \in {x \in VM_Algorithms : archive.tagmanifest[x] # "absent"}}

VM_passed == [raised |-> "none"]
VM_JobException(what) ==
    [raised |-> "JobException", reason |-> [what |-> what]]
VM_Exception(what) == [raised |-> "Exception", reason |-> [what |-> what]]
\* The JobException of validate_file_checksum.
VM_checksum_failed(algorithm, file_path) ==
    [raised |-> "JobException",
     reason |-> [what |-> "checksum verification failed",
                 algorithm |-> algorithm, file_path |-> file_path]]

\* get_bagit_dir_name: the names that qualify (none: it raises).
VM_get_bagit_dir_name(archive) ==
    {file[1] : file \in {x \in VM_list_files(archive) :
                            Len(x) = 2 /\ x[2] = "bagit.txt"}}

\* build_file_path of a found bagit directory.
VM_build_file_path(archive, root, file_rel_path, is_dir) ==
    <<root>> \o file_rel_path
        \o (IF is_dir /\ archive.ext = ".zip" THEN <<"">> ELSE <<>>)

\* validate_structure, line 233: the test of the payload directory.
VM_payload_dir_found(archive, root) ==
    VM_build_file_path(archive, root, <<"data">>, TRUE)
        \in VM_list_files(archive)

\* validate_structure.  list_manifest_files is called with an argument it
\* does not take, so the lines after it are never reached.
VM_validate_structure(archive) ==
    LET roots == VM_get_bagit_dir_name(archive) IN
    IF roots = {} THEN VM_JobException("Bagit directory not found")
    ELSE LET root == CHOOSE r \in roots : TRUE IN
         IF VM_build_file_path(archive, root, <<"bagit.txt">>, FALSE)
                \notin VM_list_files(archive)
         THEN VM_JobException("bagit.txt file not found")
         ELSE VM_Exception("TypeError")

\* validate_any_tagmanifest_file: the algorithms are met in the order the
\* set gives them, and the function returns after the first tagmanifest
\* that is present.
RECURSIVE VM_validate_any_tagmanifest_file(_, _)
VM_validate_any_tagmanifest_file(archive, order) ==
    LET roots == VM_get_bagit_dir_name(archive) IN
    IF order = <<>> THEN VM_passed
    ELSE IF roots = {} THEN VM_JobException("Bagit directory not found")
    ELSE IF archive.tagmanifest[Head(order)] = "absent"
    THEN VM_validate_any_tagmanifest_file(archive, Tail(order))
    ELSE IF archive.tagmanifest[Head(order)] = "mismatch"
    THEN VM_checksum_failed(Head(order), <<"bag", "bagit.txt">>)
    ELSE VM_passed

\* validate_bagit_txt
VM_validate_bagit_txt(archive) ==
    IF VM_get_bagit_dir_name(archive) = {}
    THEN VM_JobException("Bagit directory not found")
    ELSE IF archive.bagit_txt = "bad"
    THEN VM_JobException("Invalid bagit.txt format")
    ELSE VM_passed

\* parse_fetch_file: the paths of the lines of fetch.txt.
VM_parse_fetch_file(archive) ==
    IF archive.fetch = <<>> THEN {} ELSE archive.fetch[1]

\* validate_payload: the names of the listing that start with
\* "<root>/data/", and the paths of fetch.txt, against the paths each
\* manifest references.
VM_validate_payload(archive) ==
    LET roots == VM_get_bagit_dir_name(archive) IN
    IF roots = {} THEN VM_JobException("Bagit directory not found")
    ELSE LET root == CHOOSE r \in roots : TRUE
             payload_files ==
                 {file \in VM_list_files(archive) :
                     Len(file) >= 3 /\ file[1] = root /\ file[2] = "data"}
                 \cup VM_parse_fetch_file(archive)
         IN IF archive.manifest # <<>> /\ payload_files # archive.manifest[1]
            THEN VM_JobException("Files referenced do not match")
            ELSE VM_passed

\* The first of the verdicts that is not a pass.
RECURSIVE VM_first_raised(_)
VM_first_raised(verdicts) ==
    IF verdicts = <<>> THEN VM_passed
    ELSE IF Head(verdicts) # VM_passed THEN Head(verdicts)
    ELSE VM_first_raised(Tail(verdicts))

\* open_archive and assert_valid_archive
VM_assert_valid_archive(archive, order) ==
    IF archive.ext \notin {".zip", ".tar", ".tgz", ".gz"}
    THEN VM_JobException("Unsupported archive type")
    ELSE VM_first_raised(<<VM_validate_structure(archive),
                           VM_validate_any_tagmanifest_file(archive, order),
                           VM_validate_bagit_txt(archive),
                           VM_validate_payload(archive)>>)

\* run_job
VM_run_job(archive, order) ==
    IF archive.type # "REG" THEN AtmException("Not an archive file")
    ELSE LET verdict == VM_assert_valid_archive(archive, order) IN
         IF verdict.raised = "JobException"
         THEN [validArchives |-> <<>>, status |-> "Invalid bagit archive",
               reason |-> verdict.reason]
         ELSE IF verdict.raised = "Exception"
         THEN [validArchives |-> <<>>,
               status |-> "Failed to validate bagit archive",
               reason |-> verdict.reason]
         ELSE [validArchives |-> <<archive>>, status |-> "Valid bagit archive"]

\* The orders a set of algorithms may be iterated in.
VM_Orders ==
    {order \in [1..Cardinality(VM_Algorithms) -> VM_Algorithms] :
        \A i, j \in DOMAIN order : i # j => order[i] # order[j]}

VMInit ==
    /\ vm_pc = "idle"
    /\ vm_order = <<>>
    /\ vm_jobs = 0
    /\ vm_archive = [type |-> "none"]
    /\ vm_results = <<>>
    /\ vm_heartbeats = 0
    /\ vm_response = NoResponse
    /\ vmu_archive = [type |-> "none"]
    /\ vmu_verdict = [applied |-> FALSE]

\* handle is called, in a process whose set order is any.
VM_handle_call ==
    \E order \in VM_Orders :
        /\ vm_pc = "idle"
        /\ ~vmu_verdict.applied
        /\ vm_pc' = "loop"
        /\ vm_order' = order
        /\ UNCHANGED <<notVM, vm_jobs, vm_archive, vm_results, vm_heartbeats,
                       vm_response, vmu_archive, vmu_verdict>>

\* handle: one turn of its loop, on the next job of argsBatch.
VM_handle_job ==
    \E archive \in VM_Archives :
        /\ vm_pc = "loop"
        /\ vm_jobs < MaxJobs
        /\ vm_jobs' = vm_jobs + 1
        /\ vm_archive' = archive
        /\ vm_heartbeats' = vm_heartbeats + 1
        /\ vm_results' = Append(vm_results, VM_run_job(archive, vm_order))
        /\ UNCHANGED <<notVM, vm_pc, vm_order, vm_response, vmu_archive,
                       vmu_verdict>>

\* handle: argsBatch is over.
VM_handle_return ==
    /\ vm_pc = "loop"
    /\ vm_response' = [resultsBatch |-> vm_results]
    /\ vm_pc' = "returned"
    /\ UNCHANGED <<notVM, vm_order, vm_jobs, vm_archive, vm_results,
                   vm_heartbeats, vmu_archive, vmu_verdict>>

\* Each validator applied on its own to an opened archive, and
\* assert_valid_archive applied to it.
VMU_validate ==
    \E archive \in VM_Bags, order \in VM_Orders :
        LET roots == VM_get_bagit_dir_name(archive) IN
        /\ vm_pc = "idle"
        /\ ~vmu_verdict.applied
        /\ vmu_archive' = archive
        /\ vmu_verdict' =
               [applied |-> TRUE,
                order |-> order,
                structure |-> VM_validate_structure(archive),
                payload_dir_found |->
                    \E root \in roots : VM_payload_dir_found(archive, root),
                tagmanifest |-> VM_validate_any_tagmanifest_file(archive, order),
                bagit_txt |-> VM_validate_bagit_txt(archive),
                payload |-> VM_validate_payload(archive),
                assert_valid_archive |->
                    VM_assert_valid_archive(archive, order)]
        /\ UNCHANGED <<notVM, vm_pc, vm_order, vm_jobs, vm_archive,
                       vm_results, vm_heartbeats, vm_response>>

VMNext ==
    \/ VM_handle_call
    \/ VM_handle_job
    \/ VM_handle_return
    \/ VMU_validate

(***************************************************************************)
(*                     lambdas/bagit-uploader-validate                     *)
(***************************************************************************)
\* The names an archive's listing may hold, as the tokens "/" splits them
\* into.
LV_Names ==
    {<<"bag", "bagit.txt">>, <<"bag", "data", "f">>, <<"other", "x">>,
     <<"readme">>}

LV_None == [returned |-> "None"]

\* ZipArchive.find_bagit_dir and TarArchive.find_bagit_dir: the second
\* components are collected, and the first component returned is the one the
\* loop assigned last.  The zip loop indexes path[1] of every name; the tar
\* loop skips the names without "/".
LV_find_bagit_dir(kind, names) ==
    LET split == IF kind = "tar"
                 THEN SelectSeq(names, LAMBDA n : Len(n) >= 2) ELSE names
        root_files == {split[i][2] : i \in {j \in DOMAIN split :
                                               Len(split[j]) >= 2}}
    IN IF \E i \in DOMAIN split : Len(split[i]) < 2
       THEN [raised |-> "IndexError"]
       ELSE IF "bagit.txt" \in root_files
       THEN [returned |-> split[Len(split)][1]]
       ELSE LV_None

LVInit ==
    /\ lv_archive = [kind |-> "none", names |-> <<>>]
    /\ lv_bagit_dir = [called |-> FALSE]
    /\ lv_checksum = [called |-> FALSE]

\* find_bagit_dir is called on an archive.
LV_call_find_bagit_dir ==
    \E kind \in {"zip", "tar"}, names \in SeqsUpTo(LV_Names, MaxEntries) :
        /\ lv_archive' = [kind |-> kind, names |-> names]
        /\ lv_bagit_dir' = LV_find_bagit_dir(kind, names)
        /\ UNCHANGED <<notLV, lv_checksum>>

LV_READ_CHUNK_SIZE == 10485760

\* The sizes of the files checksum_verification reads, and the uncompressed
\* sizes of the archives that hold them.
LV_FileSizes == {0, 1, 10485760, 10485761, 20971520}

LV_ArchiveSizes == {1, 10485760, 10485761, 20971520, 31457280}

\* The chunks iter(lambda: fd.read(READ_CHUNK_SIZE), b"") yields for a file.
LV_chunks(file_size) ==
    (file_size + LV_READ_CHUNK_SIZE - 1) \div LV_READ_CHUNK_SIZE

\* calculate_checksum: the percentProcessed measurements of one file; both
\* branches add READ_CHUNK_SIZE to read_data for every chunk.  The value
\* get_bytes_precentage gives is the quotient read_data / archive_size, kept
\* here as its two terms.
LV_calculate_checksum(algorithm, file_size, archive_size) ==
    [k \in 1..LV_chunks(file_size) |->
        [read_data |-> k * LV_READ_CHUNK_SIZE, archive_size |-> archive_size]]

\* checksum_verification calls calculate_checksum on a file of the archive.
LV_call_calculate_checksum ==
    /\ ~lv_checksum.called
    /\ \E algorithm \in {"adler32", "md5"}, file_size \in LV_FileSizes,
          archive_size \in LV_ArchiveSizes :
           /\ file_size <= archive_size
           /\ lv_checksum' =
                  [called |-> TRUE, algorithm |-> algorithm,
                   file_size |-> file_size, archive_size |-> archive_size,
                   measurements |->
                       LV_calculate_checksum(algorithm, file_size, archive_size)]
    /\ UNCHANGED <<notLV, lv_archive, lv_bagit_dir>>

LVNext ==
    \/ LV_call_find_bagit_dir
    \/ LV_call_calculate_checksum

(***************************************************************************)
(*     calculate_checksum of lambdas/calculate-checksum-mounted and of     *)
(*     lambdas/bagit-uploader-calculate-checksum, for adler32              *)
(***************************************************************************)
\* The byte streams read: up to MaxChunks chunks, as fd.read returns them
\* before the b"" that ends the iteration, each of 1..MaxChunkLen bytes.
CK_Bytes == {0, 1, 255}

CK_Chunks == SeqsUpTo(CK_Bytes, MaxChunkLen) \ {<<>>}

CK_Streams == SeqsUpTo(CK_Chunks, MaxChunks)

\* zlib.adler32(data, value): the two 16-bit sums modulo 65521, the second
\* one in the high half of the 32-bit result.
RECURSIVE CK_adler32(_, _)
CK_adler32(data, value) ==
    IF data = <<>> THEN value
    ELSE LET a == ((value % 65536) + Head(data)) % 65521
             b == ((value \div 65536) + a) % 65521
         IN CK_adler32(Tail(data), b * 65536 + a)

CK_HexDigits ==
    <<"0", "1", "2", "3", "4", "5", "6", "7",
      "8", "9", "a", "b", "c", "d", "e", "f">>

\* format(value, "x"): the hexadecimal digits, without leading zeros.
RECURSIVE CK_format_x(_)
CK_format_x(value) ==
    IF value < 16 THEN <<CK_HexDigits[value + 1]>>
    ELSE Append(CK_format_x(value \div 16), CK_HexDigits[(value % 16) + 1])

\* str.zfill(width): zeros in front, up to the width.
RECURSIVE CK_zfill(_, _)
CK_zfill(str, width) ==
    IF Len(str) >= width THEN str ELSE CK_zfill(<<"0">> \o str, width)

\* The loop of both implementations over the chunks, from the value 1.
RECURSIVE CK_adler32_of(_, _)
CK_adler32_of(stream, value) ==
    IF stream = <<>> THEN value
    ELSE CK_adler32_of(Tail(stream), CK_adler32(Head(stream), value))

\* lambdas/calculate-checksum-mounted: calculate_checksum("adler32", file).
CK_calculate_checksum_ccm(stream) == CK_format_x(CK_adler32_of(stream, 1))

\* lambdas/bagit-uploader-calculate-checksum:
\* calculate_checksum(file, "adler32").
CK_calculate_checksum_lbcc(stream) ==
    CK_zfill(CK_format_x(CK_adler32_of(stream, 1)), 8)

\* A calculate_checksum that reports the size it asked for on every read.
CK_measurements_of_chunk_size(stream) == [k \in DOMAIN stream |-> MaxChunkLen]

\* The measurements calculate_checksum puts on _measurements_queue while it
\* reads a file: for every chunk, in both branches, one whose value is
\* len(data).
CK_measurements(stream) == [k \in DOMAIN stream |-> Len(stream[k])]

\* hash.hexdigest() of the other branch; the digest is left uninterpreted.
CK_hexdigest(algorithm, stream) == <<algorithm, stream>>

CKInit ==
    ck_call = [lambda |-> "none", algorithm |-> "none", stream |-> <<>>,
               checksum |-> <<>>, measurements |-> <<>>]

\* calculate_checksum of calculate-checksum-mounted runs on a file, with
\* adler32.
CK_call_ccm ==
    /\ ck_call.lambda = "none"
    /\ \E stream \in CK_Streams :
        /\ ck_call' = [lambda |-> "calculate-checksum-mounted",
                       algorithm |-> "adler32",
                       stream |-> stream,
                       checksum |-> CK_calculate_checksum_ccm(stream),
                       measurements |-> CK_measurements(stream)]
        /\ UNCHANGED notCK

\* calculate_checksum of calculate-checksum-mounted runs on a file, with an
\* algorithm of hashlib.
CK_call_ccm_hashlib ==
    /\ ck_call.lambda = "none"
    /\ \E stream \in CK_Streams :
        /\ ck_call' = [lambda |-> "calculate-checksum-mounted",
                       algorithm |-> "md5",
                       stream |-> stream,
                       checksum |-> CK_hexdigest("md5", stream),
                       measurements |-> CK_measurements(stream)]
        /\ UNCHANGED notCK

\* calculate_checksum of bagit-uploader-calculate-checksum runs on a file,
\* with adler32.
CK_call_lbcc ==
    /\ ck_call.lambda = "none"
    /\ \E stream \in CK_Streams :
        /\ ck_call' = [lambda |-> "bagit-uploader-calculate-checksum",
                       algorithm |-> "adler32",
                       stream |-> stream,
                       checksum |-> CK_calculate_checksum_lbcc(stream),
                       measurements |-> CK_measurements(stream)]
        /\ UNCHANGED notCK

CKNext ==
    \/ CK_call_ccm
    \/ CK_call_ccm_hashlib
    \/ CK_call_lbcc

(***************************************************************************)
(*             lambdas/bagit-uploader-calculate-checksum-mounted           *)
(***************************************************************************)
\* The files a request may name: whether the path is a regular file, and
\* its extended attributes in the order xattr_file.list() gives them.  An
\* attribute is a "checksum.<algorithm>.expected" one (match) or another;
\* equal tells whether the expected checksum is the one calculated.
MCC_expected(algorithm, equal) ==
    [match |-> TRUE, algorithm |-> algorithm, equal |-> equal]

MCC_Files ==
    [dir   |-> [isfile |-> FALSE, xattrs |-> <<MCC_expected("md5", TRUE)>>],
     plain |-> [isfile |-> TRUE,
                xattrs |-> <<[match |-> FALSE, algorithm |-> "none",
                              equal |-> FALSE]>>],
     one   |-> [isfile |-> TRUE, xattrs |-> <<MCC_expected("md5", TRUE)>>],
     two   |-> [isfile |-> TRUE,
                xattrs |-> <<MCC_expected("md5", TRUE),
                             MCC_expected("sha1", TRUE)>>],
     bad   |-> [isfile |-> TRUE, xattrs |-> <<MCC_expected("md5", FALSE)>>],
     okbad |-> [isfile |-> TRUE,
                xattrs |-> <<MCC_expected("md5", TRUE),
                             MCC_expected("sha1", FALSE)>>],
     badok |-> [isfile |-> TRUE,
                xattrs |-> <<MCC_expected("md5", FALSE),
                             MCC_expected("sha1", TRUE)>>]]

MCC_FileIds == DOMAIN MCC_Files

\* get_exp_file_checksums: the (file_path, algorithm, expected) tasks.
RECURSIVE MCC_get_exp_file_checksums(_)
MCC_get_exp_file_checksums(argsBatch) ==
    IF argsBatch = <<>> THEN <<>>
    ELSE LET file == MCC_Files[Head(argsBatch)]
             matching == IF file.isfile
                         THEN SelectSeq(file.xattrs, LAMBDA x : x.match)
                         ELSE <<>>
         IN [k \in DOMAIN matching |->
                [file_path |-> Head(argsBatch),
                 algorithm |-> matching[k].algorithm,
                 equal |-> matching[k].equal]]
            \o MCC_get_exp_file_checksums(Tail(argsBatch))

\* verify_file_checksum: an ExpFileChecksum, or the AtmException made of
\* the JobException that calculate_and_compare_checksums raised.
MCC_verify_file_checksum(job) ==
    IF job.equal
    THEN [file_path |-> job.file_path,
          file_info |-> [algorithm |-> job.algorithm, status |-> "ok"]]
    ELSE AtmException("str(ex)")

MCC_is_ExpFileChecksum(result) == "file_info" \in DOMAIN result

\* What assemble_results appends to results_batch: the text of an exception,
\* and the generator of the entries made of results_dict.
MCC_str(text) == [str |-> text]

MCC_generator(items) == [generator |-> items]

\* The second loop of assemble_results from task i on.  keys are the keys of
\* results_dict in insertion order; indexing an ExpFileChecksum with
\* "exception" raises TypeError.
RECURSIVE MCC_assemble_loop(_, _, _, _)
MCC_assemble_loop(tasks, results, i, acc) ==
    IF i > Len(tasks) \/ acc.raised # "no" THEN acc
    ELSE LET file_path == tasks[i].file_path
             result == results[i]
             file_paths_with_exception ==
                 {tasks[j].file_path :
                     j \in {n \in DOMAIN tasks :
                               ~MCC_is_ExpFileChecksum(results[n])}}
             step ==
                 IF /\ MCC_is_ExpFileChecksum(result)
                    /\ result.file_path \notin file_paths_with_exception
                 THEN [acc EXCEPT !.keys =
                           IF result.file_path \in Range(@) THEN @
                           ELSE Append(@, result.file_path)]
                 ELSE IF file_path \in acc.file_paths_appended THEN acc
                 ELSE IF MCC_is_ExpFileChecksum(result)
                 THEN [acc EXCEPT !.raised = "TypeError"]
                 ELSE [acc EXCEPT
                           !.results_batch = Append(@, MCC_str(result.exception)),
                           !.file_paths_appended = @ \cup {file_path}]
         IN MCC_assemble_loop(tasks, results, i + 1, step)

\* assemble_results: the exceptions first, one per file path, then a single
\* element, the generator, appended to the list.
MCC_assemble_results(tasks, results) ==
    LET acc == MCC_assemble_loop(tasks, results, 1,
                   [results_batch |-> <<>>, keys |-> <<>>,
                    file_paths_appended |-> {}, raised |-> "no"])
        items == [k \in DOMAIN acc.keys |->
                     [result |->
                         [filePath |-> acc.keys[k],
                          checksums |->
                              {results[j].file_info.algorithm :
                                  j \in {n \in DOMAIN results :
                                      /\ MCC_is_ExpFileChecksum(results[n])
                                      /\ results[n].file_path = acc.keys[k]}}]]]
    IN IF acc.raised # "no" THEN [raised |-> acc.raised]
       ELSE [returned |-> Append(acc.results_batch, MCC_generator(items))]

MCCInit ==
    /\ mcc_all_jobs_processed = FALSE
    /\ mcc_measurements_queue = <<>>
    /\ mcc_argsBatch = <<>>
    /\ mcc_handle_pc = "idle"
    /\ mcc_tasks = <<>>
    /\ mcc_jobs_executed = <<>>
    /\ mcc_results_batch = <<>>
    /\ mcc_monitor = [pc |-> "none", any_job_ongoing |-> TRUE]
    /\ mcc_response = NoResponse

\* handle: the monitor is started and the tasks are given to the pool.
MCC_handle_call ==
    \E batch \in SeqsUpTo(MCC_FileIds, MaxJobs) :
        LET tasks == MCC_get_exp_file_checksums(batch) IN
        /\ mcc_handle_pc = "idle"
        /\ mcc_argsBatch' = batch
        /\ mcc_tasks' = tasks
        /\ mcc_jobs_executed' = [k \in DOMAIN tasks |-> NoResponse]
        /\ mcc_handle_pc' = "running"
        /\ mcc_monitor' = [pc |-> "wait", any_job_ongoing |-> TRUE]
        /\ UNCHANGED <<notMCC, mcc_all_jobs_processed,
                       mcc_measurements_queue, mcc_results_batch,
                       mcc_response>>

\* A pool thread runs verify_file_checksum on task k: the file is read, its
\* measurement put on the queue, and the result kept at the task's place.
MCC_run_task ==
    \E k \in DOMAIN mcc_tasks :
        /\ mcc_handle_pc = "running"
        /\ mcc_jobs_executed[k] = NoResponse
        /\ mcc_jobs_executed' =
               [mcc_jobs_executed EXCEPT
                    ![k] = MCC_verify_file_checksum(mcc_tasks[k])]
        /\ mcc_measurements_queue' =
               Append(mcc_measurements_queue,
                      [tsName |-> mcc_tasks[k].algorithm, value |-> 1])
        /\ UNCHANGED <<notMCC, mcc_all_jobs_processed, mcc_argsBatch,
                       mcc_handle_pc, mcc_tasks, mcc_results_batch,
                       mcc_monitor, mcc_response>>

\* handle: the pool is over, assemble_results runs and the event is set.
MCC_handle_set ==
    LET assembled == MCC_assemble_results(mcc_tasks, mcc_jobs_executed) IN
    /\ mcc_handle_pc = "running"
    /\ \A k \in DOMAIN mcc_tasks : mcc_jobs_executed[k] # NoResponse
    /\ IF "raised" \in DOMAIN assembled
       THEN /\ mcc_handle_pc' = "raised"
            /\ UNCHANGED <<mcc_all_jobs_processed, mcc_results_batch>>
       ELSE /\ mcc_handle_pc' = "joining"
            /\ mcc_all_jobs_processed' = TRUE
            /\ mcc_results_batch' = assembled.returned
    /\ UNCHANGED <<notMCC, mcc_measurements_queue, mcc_argsBatch, mcc_tasks,
                   mcc_jobs_executed, mcc_monitor, mcc_response>>

\* handle: jobs_monitor.join() returns and the response is returned.
MCC_handle_return ==
    /\ mcc_handle_pc = "joining"
    /\ mcc_monitor.pc = "exited"
    /\ mcc_handle_pc' = "returned"
    /\ mcc_response' = [resultsBatch |-> mcc_results_batch]
    /\ UNCHANGED <<notMCC, mcc_all_jobs_processed, mcc_measurements_queue,
                   mcc_argsBatch, mcc_tasks, mcc_jobs_executed,
                   mcc_results_batch, mcc_monitor>>

\* monitor_jobs: _all_jobs_processed.wait(timeout=1) returns.
MCC_monitor_wait ==
    /\ mcc_monitor.pc = "wait"
    /\ mcc_monitor' = [pc |-> "drain",
                       any_job_ongoing |-> ~mcc_all_jobs_processed]
    /\ UNCHANGED <<notMCC, mcc_all_jobs_processed, mcc_measurements_queue,
                   mcc_argsBatch, mcc_handle_pc, mcc_tasks,
                   mcc_jobs_executed, mcc_results_batch, mcc_response>>

\* monitor_jobs: the drain, the report, and the loop test.
MCC_monitor_drain ==
    /\ mcc_monitor.pc = "drain"
    /\ mcc_measurements_queue' = <<>>
    /\ mcc_monitor' = [mcc_monitor EXCEPT !.pc =
           IF mcc_monitor.any_job_ongoing THEN "wait" ELSE "exited"]
    /\ UNCHANGED <<notMCC, mcc_all_jobs_processed, mcc_argsBatch,
                   mcc_handle_pc, mcc_tasks, mcc_jobs_executed,
                   mcc_results_batch, mcc_response>>

MCCNext ==
    \/ MCC_handle_call
    \/ MCC_run_task
    \/ MCC_handle_set
    \/ MCC_handle_return
    \/ MCC_monitor_wait
    \/ MCC_monitor_drain

(***************************************************************************)
(*                       bagit-uploader/unpack-data                        *)
(***************************************************************************)
BUD_HEARTBEAT_INTERVAL_SEC == 150

\* The archives a request may name: the extension of the file name and the
\* files under <bagit_dir>/data/, in the order of the listing, each with the
\* size its destination file has once extracted.
BUD_Archives ==
    [one |-> [ext |-> ".tar", files |-> <<"a">>],
     two |-> [ext |-> ".zip", files |-> <<"a", "b">>],
     rar |-> [ext |-> ".rar", files |-> <<>>]]

BUD_Paths == {"a", "b"}

BUD_file_size == 1

BUD_PostOutcomes == {"ok", "not_ok"}

\* How far the clock is seen to advance between two steps.
BUD_ClockSteps == {1, BUD_HEARTBEAT_INTERVAL_SEC}

\* heartbeat: whether a POST is due at current_time.
BUD_heartbeat_due(current_time, last) ==
    current_time - last > BUD_HEARTBEAT_INTERVAL_SEC

\* heartbeat: LAST_HEARTBEAT_TIME after the POST.
BUD_last_heartbeat_time(ok, current_time, last) ==
    IF ok THEN current_time ELSE last

\* monitor_unpack after heartbeat() has returned: size = current_size and the
\* loop test.
BUD_monitor_loop(m) ==
    [m EXCEPT !.size = m.current_size,
              !.pc = IF m.current_size < m.file_size THEN "sleep" ELSE "exited"]

BUDInit ==
    /\ bud_now = StartTime
    /\ bud_advances = 0
    /\ bud_LAST_HEARTBEAT_TIME = 0
    /\ bud_posts = <<>>
    /\ bud_UPLOADED_FILES = <<>>
    /\ bud_invocation = 0
    /\ bud_pc = "idle"
    /\ bud_archive = "rar"
    /\ bud_index = 1
    /\ bud_extracted = <<>>
    /\ bud_monitors = <<>>
    /\ bud_disk = [p \in BUD_Paths |-> 0]
    /\ bud_response = NoResponse

\* Time passes.
BUD_clock ==
    \E d \in BUD_ClockSteps :
        /\ bud_advances < MaxAdvances
        /\ bud_advances' = bud_advances + 1
        /\ bud_now' = bud_now + d
        /\ UNCHANGED <<notBUD, bud_LAST_HEARTBEAT_TIME, bud_posts,
                       bud_UPLOADED_FILES, bud_invocation, bud_pc,
                       bud_archive, bud_index, bud_extracted, bud_monitors,
                       bud_disk, bud_response>>

\* handle: the request is parsed and heartbeat() is called.
BUD_handle_call ==
    \E archive \in DOMAIN BUD_Archives, outcome \in BUD_PostOutcomes :
        /\ bud_pc \in {"idle", "returned"}
        /\ bud_invocation < MaxInvocations
        /\ Len(bud_monitors) + Len(BUD_Archives[archive].files) <= MaxFiles
        /\ bud_invocation' = bud_invocation + 1
        /\ bud_archive' = archive
        /\ bud_index' = 1
        /\ bud_extracted' = <<>>
        /\ bud_response' = NoResponse
        /\ bud_pc' = "unpacking"
        /\ IF BUD_heartbeat_due(bud_now, bud_LAST_HEARTBEAT_TIME)
           THEN /\ bud_posts' = Append(bud_posts,
                                       [time |-> bud_now, ok |-> outcome = "ok",
                                        by |-> "handle"])
                /\ bud_LAST_HEARTBEAT_TIME' =
                       BUD_last_heartbeat_time(outcome = "ok", bud_now,
                                               bud_LAST_HEARTBEAT_TIME)
           ELSE UNCHANGED <<bud_posts, bud_LAST_HEARTBEAT_TIME>>
        /\ UNCHANGED <<notBUD, bud_now, bud_advances, bud_UPLOADED_FILES,
                       bud_monitors, bud_disk>>

\* unpack_bagit_archive: the next file under data/ gets its monitor thread
\* and its extraction begins: the destination file is created empty.
BUD_start_file ==
    LET files == BUD_Archives[bud_archive].files IN
    /\ bud_pc = "unpacking"
    /\ BUD_Archives[bud_archive].ext \in {".tar", ".zip", ".tgz", ".gz"}
    /\ bud_index <= Len(files)
    /\ bud_pc' = "extracting"
    /\ bud_disk' = [bud_disk EXCEPT ![files[bud_index]] = 0]
    /\ bud_monitors' =
           Append(bud_monitors,
                  [pc |-> "sleep", file_path |-> files[bud_index],
                   file_size |-> BUD_file_size, size |-> 0,
                   current_size |-> 0, current_time |-> 0])
    /\ UNCHANGED <<notBUD, bud_now, bud_advances, bud_LAST_HEARTBEAT_TIME,
                   bud_posts, bud_UPLOADED_FILES, bud_invocation, bud_archive,
                   bud_index, bud_extracted, bud_response>>

\* unpack_bagit_archive: extract_archive_file returns and the destination
\* path is appended to UPLOADED_FILES.
BUD_extract ==
    LET file_path == BUD_Archives[bud_archive].files[bud_index] IN
    /\ bud_pc = "extracting"
    /\ bud_disk' = [bud_disk EXCEPT ![file_path] = BUD_file_size]
    /\ bud_UPLOADED_FILES' = Append(bud_UPLOADED_FILES, file_path)
    /\ bud_extracted' = Append(bud_extracted, file_path)
    /\ bud_index' = bud_index + 1
    /\ bud_pc' = "unpacking"
    /\ UNCHANGED <<notBUD, bud_now, bud_advances, bud_LAST_HEARTBEAT_TIME,
                   bud_posts, bud_invocation, bud_archive, bud_monitors,
                   bud_response>>

\* handle: unpack_data_dir has returned, or has raised for an unsupported
\* archive type; both responses carry UPLOADED_FILES.
BUD_handle_return ==
    LET supported == BUD_Archives[bud_archive].ext
                         \in {".tar", ".zip", ".tgz", ".gz"} IN
    /\ bud_pc = "unpacking"
    /\ supported => bud_index > Len(BUD_Archives[bud_archive].files)
    /\ bud_response' =
           [uploadedFiles |-> bud_UPLOADED_FILES,
            severity |-> IF supported THEN "info" ELSE "error"]
    /\ bud_pc' = "returned"
    /\ UNCHANGED <<notBUD, bud_now, bud_advances, bud_LAST_HEARTBEAT_TIME,
                   bud_posts, bud_UPLOADED_FILES, bud_invocation, bud_archive,
                   bud_index, bud_extracted, bud_monitors, bud_disk>>

\* monitor_unpack of thread t: the sleep is over, the file is seen to have
\* grown and heartbeat() is entered.
BUD_monitor_wake ==
    \E t \in DOMAIN bud_monitors :
        LET m == bud_monitors[t] IN
        /\ m.pc = "sleep"
        /\ bud_disk[m.file_path] > m.size
        /\ bud_monitors' = [bud_monitors EXCEPT ![t] =
               [m EXCEPT !.pc = "heartbeat",
                         !.current_size = bud_disk[m.file_path]]]
        /\ UNCHANGED <<notBUD, bud_now, bud_advances, bud_LAST_HEARTBEAT_TIME,
                       bud_posts, bud_UPLOADED_FILES, bud_invocation, bud_pc,
                       bud_archive, bud_index, bud_extracted, bud_disk,
                       bud_response>>

\* heartbeat() in thread t: the clock is read and compared with
\* LAST_HEARTBEAT_TIME.
BUD_monitor_heartbeat ==
    \E t \in DOMAIN bud_monitors :
        LET m == bud_monitors[t] IN
        /\ m.pc = "heartbeat"
        /\ bud_monitors' = [bud_monitors EXCEPT ![t] =
               IF BUD_heartbeat_due(bud_now, bud_LAST_HEARTBEAT_TIME)
               THEN [m EXCEPT !.pc = "post", !.current_time = bud_now]
               ELSE BUD_monitor_loop(m)]
        /\ UNCHANGED <<notBUD, bud_now, bud_advances, bud_LAST_HEARTBEAT_TIME,
                       bud_posts, bud_UPLOADED_FILES, bud_invocation, bud_pc,
                       bud_archive, bud_index, bud_extracted, bud_disk,
                       bud_response>>

\* heartbeat() in thread t: requests.post returns and LAST_HEARTBEAT_TIME is
\* written if the response is OK.
BUD_monitor_post ==
    \E t \in DOMAIN bud_monitors, outcome \in BUD_PostOutcomes :
        LET m == bud_monitors[t] IN
        /\ m.pc = "post"
        /\ bud_posts' = Append(bud_posts,
                               [time |-> m.current_time, ok |-> outcome = "ok",
                                by |-> m.file_path])
        /\ bud_LAST_HEARTBEAT_TIME' =
               BUD_last_heartbeat_time(outcome = "ok", m.current_time,
                                       bud_LAST_HEARTBEAT_TIME)
        /\ bud_monitors' = [bud_monitors EXCEPT ![t] = BUD_monitor_loop(m)]
        /\ UNCHANGED <<notBUD, bud_now, bud_advances, bud_UPLOADED_FILES,
                       bud_invocation, bud_pc, bud_archive, bud_index,
                       bud_extracted, bud_disk, bud_response>>

BUDNext ==
    \/ BUD_clock
    \/ BUD_handle_call
    \/ BUD_start_file
    \/ BUD_extract
    \/ BUD_handle_return
    \/ BUD_monitor_wake
    \/ BUD_monitor_heartbeat
    \/ BUD_monitor_post

(***************************************************************************)
(*                        bagit-uploader/fetch-files                       *)
(***************************************************************************)
\* The backoffs of the retry loop of handle.
FF_backoffs == <<0, 2, 5, 7>>

\* The files a request may name: one that is already in place with the
\* expected size, one whose download succeeds, one whose download may fail
\* or succeed on any attempt, and one whose download always fails.
FF_Files == {"exists", "good", "flaky", "dead"}

\* What an attempt on a file may come to.
FF_attempt_outcomes(file) ==
    IF file = "exists" THEN {"exists"}
    ELSE IF file = "good" THEN {"downloaded"}
    ELSE IF file = "flaky" THEN {"downloaded", "raised"}
    ELSE {"raised"}

FF_log(severity, index) == [severity |-> severity, file |-> index]

FFInit ==
    /\ ff_filesToFetch = <<>>
    /\ ff_pc = "idle"
    /\ ff_file = 1
    /\ ff_retry = 1
    /\ ff_logs = <<>>
    /\ ff_uploaded_files = <<>>
    /\ ff_failed = {}
    /\ ff_slept = 0
    /\ ff_response = NoResponse

\* handle: the request is parsed; uploaded_files and logs are empty.
FF_handle_call ==
    \E files \in SeqsUpTo(FF_Files, MaxFiles) :
        /\ ff_pc = "idle"
        /\ ff_filesToFetch' = files
        /\ ff_pc' = "fetching"
        /\ UNCHANGED <<notFF, ff_file, ff_retry, ff_logs, ff_uploaded_files,
                       ff_failed, ff_slept, ff_response>>

\* handle: one turn of the retry loop for the current file.  logs is emptied
\* first; then the file is found in place, or downloaded, or the attempt
\* raises: the backoff is slept, and after the last one the exception leaves
\* the loop and its error is appended to logs.
FF_attempt ==
    /\ ff_pc = "fetching"
    /\ ff_file <= Len(ff_filesToFetch)
    /\ \E outcome \in FF_attempt_outcomes(ff_filesToFetch[ff_file]) :
        LET last == FF_backoffs[ff_retry] = 7 IN
        /\ ff_logs' =
               IF outcome = "exists" THEN <<FF_log("info", ff_file)>>
               ELSE IF outcome = "raised" /\ last
               THEN <<FF_log("error", ff_file)>>
               ELSE <<>>
        /\ ff_uploaded_files' =
               IF outcome = "downloaded"
               THEN Append(ff_uploaded_files, ff_file) ELSE ff_uploaded_files
        /\ ff_slept' =
               IF outcome = "raised" THEN ff_slept + FF_backoffs[ff_retry]
               ELSE ff_slept
        /\ ff_failed' =
               IF outcome = "raised" /\ last
               THEN ff_failed \cup {ff_file} ELSE ff_failed
        /\ IF outcome = "raised" /\ ~last
           THEN /\ ff_retry' = ff_retry + 1
                /\ UNCHANGED ff_file
           ELSE /\ ff_retry' = 1
                /\ ff_file' = ff_file + 1
        /\ UNCHANGED <<notFF, ff_filesToFetch, ff_pc, ff_response>>

\* handle: every file has been gone through; the error logs, if there are
\* any in logs, are returned as an exception.
FF_handle_return ==
    LET error_logs == SelectSeq(ff_logs, LAMBDA l : l.severity = "error") IN
    /\ ff_pc = "fetching"
    /\ ff_file > Len(ff_filesToFetch)
    /\ ff_response' =
           IF Len(error_logs) >= 1
           THEN [exception |-> [reason |-> error_logs]]
           ELSE [uploadedFiles |-> ff_uploaded_files, logs |-> ff_logs]
    /\ ff_pc' = "returned"
    /\ UNCHANGED <<notFF, ff_filesToFetch, ff_file, ff_retry, ff_logs,
                   ff_uploaded_files, ff_failed, ff_slept>>

FFNext ==
    \/ FF_handle_call
    \/ FF_attempt
    \/ FF_handle_return

(***************************************************************************)
(*                  bagit-uploader/archive-destination-dm-cern             *)
(***************************************************************************)
DMC_HEARTBEAT_INTERVAL_SEC == 150
DMC_increment_timeout_sec == 60

\* The largest bytesArchived the provider reports.
MaxBytes == 2

\* Seconds a REST request may take before its response arrives.
DMC_RequestSecs == {0, 50}

DMC_ArchiveStates == {"building", "preserved", "failed"}

\* Times are kept as the seconds gone by since the instant they are compared
\* with; a difference that has passed the threshold it is tested against
\* stays there.
DMC_after(elapsed, secs, cap) ==
    IF elapsed + secs >= cap THEN cap ELSE elapsed + secs

DMCInit ==
    /\ dmc_pc = "idle"
    /\ dmc_archive = [state |-> "building", bytesArchived |-> 0]
    /\ dmc_current_bytes_preserved = 0
    /\ dmc_latest_bytes_preserved = 0
    /\ dmc_since_check = DMC_increment_timeout_sec
    /\ dmc_since_heartbeat = DMC_HEARTBEAT_INTERVAL_SEC + 1
    /\ dmc_purge_status = "none"

\* handle and process_item up to the call of wait_until_archive_is_ready:
\* the first heartbeat is posted, the archive is created, and the locals of
\* wait_until_archive_is_ready are set (latest_check_time = 0 lies far
\* more than increment_timeout_sec back).
DMC_call ==
    /\ dmc_pc = "idle"
    /\ \E ok \in BOOLEAN :
           dmc_since_heartbeat' =
               IF ok THEN 0 ELSE dmc_since_heartbeat
    /\ dmc_pc' = "request"
    /\ UNCHANGED <<notDMC, dmc_archive, dmc_current_bytes_preserved,
                   dmc_latest_bytes_preserved, dmc_since_check,
                   dmc_purge_status>>

\* The provider: while the function waits, the archive changes its state or
\* its bytesArchived.
DMC_provider ==
    /\ dmc_pc \in {"request", "except", "heartbeat"}
    /\ \E state \in DMC_ArchiveStates, bytes \in 0..MaxBytes :
           /\ [state |-> state, bytesArchived |-> bytes] # dmc_archive
           /\ dmc_archive' = [state |-> state, bytesArchived |-> bytes]
    /\ UNCHANGED <<notDMC, dmc_pc, dmc_current_bytes_preserved,
                   dmc_latest_bytes_preserved, dmc_since_check,
                   dmc_since_heartbeat, dmc_purge_status>>

\* wait_until_archive_is_ready, the try block: the status request.  A
\* response that is ok sets latest_check_time to now and
\* current_bytes_preserved to the reported bytes; the function returns when
\* the state is preserved, and raises into the except block otherwise.
DMC_request ==
    /\ dmc_pc = "request"
    /\ \E secs \in DMC_RequestSecs, ok \in BOOLEAN :
           /\ dmc_since_heartbeat' =
                  DMC_after(dmc_since_heartbeat, secs,
                            DMC_HEARTBEAT_INTERVAL_SEC + 1)
           /\ IF ok
              THEN /\ dmc_since_check' = 0
                   /\ dmc_current_bytes_preserved' = dmc_archive.bytesArchived
                   /\ dmc_pc' = IF dmc_archive.state = "preserved"
                                THEN "returned" ELSE "except"
              ELSE /\ dmc_since_check' =
                          DMC_after(dmc_since_check, secs,
                                    DMC_increment_timeout_sec)
                   /\ dmc_pc' = "except"
                   /\ UNCHANGED dmc_current_bytes_preserved
    /\ UNCHANGED <<notDMC, dmc_archive, dmc_latest_bytes_preserved,
                   dmc_purge_status>>

\* wait_until_archive_is_ready, the except block: with no progress of the
\* bytes and time_diff at increment_timeout_sec or more the archive is purged
\* and the function raises; otherwise latest_check_time becomes now when the
\* progress is not negative, and latest_bytes_preserved is updated.
DMC_except ==
    LET bytes_progress ==
            dmc_current_bytes_preserved - dmc_latest_bytes_preserved
    IN  /\ dmc_pc = "except"
        /\ IF dmc_since_check >= DMC_increment_timeout_sec
              /\ bytes_progress = 0
           THEN /\ \E purge_status \in {"purged", "failed_to_purge"} :
                       dmc_purge_status' = purge_status
                /\ dmc_pc' = "raised"
                /\ UNCHANGED <<dmc_since_check, dmc_latest_bytes_preserved>>
           ELSE /\ dmc_since_check' =
                       IF bytes_progress >= 0 THEN 0 ELSE dmc_since_check
                /\ dmc_latest_bytes_preserved' = dmc_current_bytes_preserved
                /\ dmc_pc' = "heartbeat"
                /\ UNCHANGED dmc_purge_status
        /\ UNCHANGED <<notDMC, dmc_archive, dmc_current_bytes_preserved,
                       dmc_since_heartbeat>>

\* wait_until_archive_is_ready, the end of a turn: heartbeat(), which posts
\* when the last heartbeat that was ok is more than HEARTBEAT_INTERVAL_SEC
\* back, and time.sleep(10).
DMC_heartbeat ==
    /\ dmc_pc = "heartbeat"
    /\ \E ok \in BOOLEAN :
           dmc_since_heartbeat' =
               DMC_after(IF dmc_since_heartbeat > DMC_HEARTBEAT_INTERVAL_SEC
                            /\ ok
                         THEN 0 ELSE dmc_since_heartbeat,
                         10, DMC_HEARTBEAT_INTERVAL_SEC + 1)
    /\ dmc_since_check' =
           DMC_after(dmc_since_check, 10, DMC_increment_timeout_sec)
    /\ dmc_pc' = "request"
    /\ UNCHANGED <<notDMC, dmc_archive, dmc_current_bytes_preserved,
                   dmc_latest_bytes_preserved, dmc_purge_status>>

DMCNext ==
    \/ DMC_call
    \/ DMC_provider
    \/ DMC_request
    \/ DMC_except
    \/ DMC_heartbeat

(***************************************************************************)
(* The specifications: one per handler, from the state of a fresh process. *)
(***************************************************************************)
Init ==
    /\ CCMInit
    /\ CCRInit
    /\ BCCInit
    /\ ADRInit
    /\ BVInit
    /\ UDMInit
    /\ LBCCInit
    /\ VMInit
    /\ LVInit
    /\ CKInit
    /\ MCCInit
    /\ BUDInit
    /\ FFInit
    /\ DMCInit

CCMSpec == Init /\ [][CCMNext]_vars

CCRSpec == Init /\ [][CCRNext]_vars

BCCSpec == Init /\ [][BCCNext]_vars

ADRSpec == Init /\ [][ADRNext]_vars

BVSpec == Init /\ [][BVNext]_vars

UDMSpec == Init /\ [][UDMNext]_vars

LBCCSpec == Init /\ [][LBCCNext]_vars

VMSpec == Init /\ [][VMNext]_vars

LVSpec == Init /\ [][LVNext]_vars

CKSpec == Init /\ [][CKNext]_vars

MCCSpec == Init /\ [][MCCNext]_vars

BUDSpec == Init /\ [][BUDNext]_vars

FFSpec == Init /\ [][FFNext]_vars

DMCSpec == Init /\ [][DMCNext]_vars

\* The function keeps running: each of its steps is eventually taken.  The
\* provider owes nothing.
DMCFairSpec ==
    /\ DMCSpec
    /\ WF_vars(DMC_call)
    /\ WF_vars(DMC_request)
    /\ WF_vars(DMC_except)
    /\ WF_vars(DMC_heartbeat)

\* Every thread that can take a step eventually takes one.
UDMFairSpec ==
    /\ UDMSpec
    /\ WF_vars(UDM_unpack_bagit_archive)
    /\ WF_vars(UDM_unpack_file)
    /\ WF_vars(UDM_extract)
    /\ WF_vars(UDM_run_job)
    /\ WF_vars(UDM_handle_set)
    /\ WF_vars(UDM_handle_return)
    /\ WF_vars(UDM_monitor_wait)
    /\ WF_vars(UDM_monitor_scan)

(***************************************************************************)
(* Claims about lambdas/calculate-checksum-mounted.                        *)
(***************************************************************************)
CCM_Returned == ccm_handle_pc = "returned"

CCM_ReturnedBatch == CCM_Returned /\ "resultsBatch" \in DOMAIN ccm_response

\* C1: whatever the request (supported algorithm or not), the response of
\* handle holds a resultsBatch with one entry per entry of argsBatch.
C1_ResultsBatchPerJob ==
    CCM_Returned =>
        /\ "resultsBatch" \in DOMAIN ccm_response
        /\ Len(ccm_response.resultsBatch) = Len(ccm_request.argsBatch)

\* C2: entry i of resultsBatch is run_job of argsBatch[i], whatever the
\* order the jobs finished in.
C2_ResultsInInputOrder ==
    CCM_ReturnedBatch =>
        ccm_response.resultsBatch =
            [i \in DOMAIN ccm_request.argsBatch |->
                CCM_run_job(ccm_request, ccm_request.argsBatch[i])]

\* C2 happens: a batch returned whose second job finished first and whose
\* two results differ.
C2_Witness ==
    /\ CCM_ReturnedBatch
    /\ Len(ccm_completed) = 2
    /\ ccm_completed[1] = 2
    /\ ccm_response.resultsBatch[1] # ccm_response.resultsBatch[2]

\* C4: in every invocation of one process, each measurement enqueued during
\* the invocation has been given to stream_items exactly once when the
\* invocation returns.
C4_EveryMeasurementStreamed ==
    CCM_ReturnedBatch =>
        \A m \in ccm_enqueued : CopiesIn(m, ccm_streamed) = 1

\* A step of the running invocation that invokes heartbeat_callback.
CCM_HeartbeatInvoked ==
    /\ ccm_invocation' = ccm_invocation
    /\ ccm_heartbeats'.calls # ccm_heartbeats.calls

CCR_JobRaises(req, file_id) ==
    LET f == CCR_Files[file_id] IN
    /\ f.type = "REG"
    /\ \/ f.get # "ok"
       \/ req.algorithm = "shake_128"
       \/ req.metadataKey # "" /\ f.put # "ok"

\* C3: when the work of some jobs raises, handle still returns one entry per
\* job: an exception entry in the slots of the jobs that raised, and in every
\* other slot the result entry of that job.
C3_FailingJobIsolated ==
    /\ ccr_handle_pc # "raised"
    /\ (ccr_handle_pc = "returned" /\ "resultsBatch" \in DOMAIN ccr_response) =>
        /\ Len(ccr_response.resultsBatch) = Len(ccr_request.argsBatch)
        /\ \A i \in DOMAIN ccr_request.argsBatch :
            LET file_id == ccr_request.argsBatch[i] IN
            IF CCR_JobRaises(ccr_request, file_id)
            THEN DOMAIN ccr_response.resultsBatch[i] = {"exception"}
            ELSE ccr_response.resultsBatch[i] =
                   CCR_build_job_results(file_id, ccr_request.algorithm,
                       IF CCR_Files[file_id].type = "REG"
                       THEN CCR_calculate_checksum(ccr_request.algorithm,
                                                   file_id)
                       ELSE "None")

\* C3 happens: a batch of two jobs returned, the work of exactly one of them
\* having raised.
C3_Witness ==
    /\ ccr_handle_pc = "returned"
    /\ "resultsBatch" \in DOMAIN ccr_response
    /\ Len(ccr_response.resultsBatch) = 2
    /\ \E k \in 1..2 :
        /\ ccr_job[k].raised # "none"
        /\ ccr_job[3 - k].raised = "none"
        /\ "exception" \in DOMAIN ccr_response.resultsBatch[k]
        /\ "result" \in DOMAIN ccr_response.resultsBatch[3 - k]

C7_HeartbeatInLongBatch ==
    (adr_handle_pc = "returned" /\ adr_now > interval_seconds) =>
        adr_heartbeats >= 1

(***************************************************************************)
(* Claims about bagit-uploader/validate.                                   *)
(***************************************************************************)
\* The archive passes every check of assert_valid_bagit_archive.
BV_OtherwiseValid(id) ==
    LET archive == BV_Archives[id] IN
    /\ BV_assert_valid_bagit_archive(archive) # "skip"
    /\ \A k \in DOMAIN archive.manifest : archive.manifest[k].matches

\* C8: a heartbeat POST that raises or is not OK does not change the outcome
\* of the request: handle does not raise, and when it has returned every
\* archive of the request that is otherwise valid is listed.
C8_HeartbeatFailureHarmless ==
    /\ bv_pc # "raised"
    /\ bv_pc = "returned" =>
           bv_response =
               [validBagitArchives |-> SelectSeq(bv_archives, BV_OtherwiseValid)]

\* The same for the calls in which every heartbeat POST was OK.
C8_OutcomeWithoutFailure ==
    (bv_pc = "returned" /\ ~bv_post_failed) =>
        bv_response =
            [validBagitArchives |-> SelectSeq(bv_archives, BV_OtherwiseValid)]

\* C17: an archive whose file name has an extension other than .tar, .zip,
\* .tgz or .gz is never in the validBagitArchives handle returns.
C17_UnknownExtensionRejected ==
    bv_pc = "returned" =>
        \A k \in DOMAIN bv_response.validBagitArchives :
            BV_Archives[bv_response.validBagitArchives[k]].ext
                \in {".tar", ".zip", ".tgz", ".gz"}

\* C18: handle of bagit-uploader-calculate-checksum-mounted does not raise,
\* and the resultsBatch it returns has exactly one entry per argsBatch entry,
\* in input order: entry i is the result of file i or an exception.
C18_OneEntryPerJob ==
    /\ mcc_handle_pc # "raised"
    /\ mcc_handle_pc = "returned" =>
           /\ Len(mcc_response.resultsBatch) = Len(mcc_argsBatch)
           /\ \A i \in DOMAIN mcc_response.resultsBatch :
                  LET entry == mcc_response.resultsBatch[i] IN
                  \/ "exception" \in DOMAIN entry
                  \/ /\ "result" \in DOMAIN entry
                     /\ entry.result.filePath = mcc_argsBatch[i]

\* C19: when run_job of one (file, algorithm) task ended in an exception,
\* handle does not raise: it goes on to a resultsBatch that holds the
\* entries of the files whose tasks all succeeded.
C19_FailedTaskIsolated ==
    (/\ lbcc_handle_pc \in {"raised", "set", "returned"}
     /\ \E k \in DOMAIN lbcc_executed :
            lbcc_executed[k] = AtmException("str(ex)"))
    => /\ lbcc_handle_pc # "raised"
       /\ \A k \in DOMAIN lbcc_executed :
              (\A j \in DOMAIN lbcc_executed :
                   lbcc_jobs[j].file_path = lbcc_jobs[k].file_path
                       => lbcc_executed[j] # AtmException("str(ex)"))
              => \E e \in DOMAIN lbcc_response.resultsBatch :
                     lbcc_jobs[k].algorithm
                         \in lbcc_response.resultsBatch[e].checksums

\* C20: in both lambdas, calculate_checksum with adler32 on an empty byte
\* stream gives the string "1".
C20_Adler32OfEmptyIsOne ==
    (ck_call.algorithm = "adler32" /\ ck_call.stream = <<>>)
        => ck_call.checksum = <<"1">>

(***************************************************************************)
(* Claims about lambdas/bagit-uploader-unpack-data-mounted.                *)
(***************************************************************************)
\* C9: once every job has its result and _all_archives_unpacked is set, the
\* monitor thread exits, join returns and handle returns, also when a job
\* failed on a file that was registered and stays below its target size.
C9_HandleTerminates ==
    (udm_handle_pc = "joining") ~> (udm_handle_pc = "returned")

\* The same for the batches in which no registered file stays below its
\* target size.
C9_TerminatesWhenFilesComplete ==
    (udm_handle_pc = "joining" /\
     \A k \in DOMAIN udm_argsBatch : udm_argsBatch[k] # "torn")
        ~> (udm_handle_pc = "returned")

(***************************************************************************)
(* Claims about lambdas/bagit-uploader-calculate-checksum.                 *)
(***************************************************************************)
\* C10: when handle has returned, the monitor thread has done its final
\* drain: _measurements_queue is empty and every measurement enqueued during
\* the batch has been streamed.
C10_ReturnAfterFinalDrain ==
    lbcc_handle_pc = "returned" =>
        /\ lbcc_measurements_queue = <<>>
        /\ lbcc_streamed = lbcc_enqueued

\* What does hold: once the monitor thread has exited, nothing is left.
C10_DrainedWhenMonitorExited ==
    lbcc_monitor.pc = "exited" =>
        /\ lbcc_measurements_queue = <<>>
        /\ lbcc_streamed = lbcc_enqueued

(***************************************************************************)
(* Claims about lambdas/bagit-uploader-validate-mounted.                   *)
(***************************************************************************)
\* A regular-file bag with a well-formed bagit.txt, a data directory with
\* one file, and a manifest-md5.txt whose one line names that file.
VM_OneFileBag(archive) ==
    /\ archive.type = "REG"
    /\ archive.ext \in {".zip", ".tar"}
    /\ archive.bagit_txt = "ok"
    /\ archive.data_dir
    /\ archive.data_files = {"f"}
    /\ archive.manifest = <<{<<"data", "f">>}>>
    /\ archive.fetch = <<>>
    /\ \A alg \in VM_Algorithms : archive.tagmanifest[alg] = "absent"

\* C11: for a one-file bag whose manifest-md5.txt holds the file's correct
\* MD5, run_job returns the archive in validArchives with the status
\* "Valid bagit archive".
C11_MinimalBagValid ==
    (vm_jobs >= 1 /\ VM_OneFileBag(vm_archive) /\ vm_archive.intact) =>
        vm_results[vm_jobs] =
            [validArchives |-> <<vm_archive>>, status |-> "Valid bagit archive"]

\* C12: for a one-file bag whose payload file no longer has the content its
\* manifest-md5.txt recorded, run_job reports an invalid archive with a
\* checksum failure that names md5 and the file, and returns no archive.
C12_CorruptPayloadRejected ==
    (vm_jobs >= 1 /\ VM_OneFileBag(vm_archive) /\ ~vm_archive.intact) =>
        vm_results[vm_jobs] =
            [validArchives |-> <<>>, status |-> "Invalid bagit archive",
             reason |-> VM_checksum_failed("md5", <<"bag", "data", "f">>).reason]

\* C13: validate_payload passes exactly when the files under data/ together
\* with the paths of fetch.txt are the paths the manifest references; so it
\* passes for a bag whose one data file is the one path of its manifest.
C13_PayloadMatchesManifest ==
    (vmu_verdict.applied /\ vmu_archive.bagit_txt # "absent"
        /\ vmu_archive.manifest # <<>>) =>
        (vmu_verdict.payload = VM_passed
            <=> {<<"data", f>> : f \in vmu_archive.data_files}
                    \cup VM_parse_fetch_file(vmu_archive)
                = vmu_archive.manifest[1])

\* C14: the payload test of validate_structure passes when the bag has a
\* data directory or a fetch.txt, and fails only when it has neither.
C14_PayloadOrFetch ==
    (vmu_verdict.applied /\ vmu_archive.bagit_txt # "absent") =>
        (vmu_verdict.payload_dir_found
            <=> (vmu_archive.data_dir \/ vmu_archive.fetch # <<>>))

\* C16: when an entry of any tagmanifest present has a checksum that differs
\* from the computed one, validate_any_tagmanifest_file fails, also when the
\* tagmanifest of another algorithm is present and matches.
C16_EveryTagmanifestVerified ==
    (vmu_verdict.applied /\ vmu_archive.bagit_txt # "absent"
        /\ \E alg \in VM_Algorithms : vmu_archive.tagmanifest[alg] = "mismatch")
    => vmu_verdict.tagmanifest.raised = "JobException"

\* C22: for a bag with both a malformed bagit.txt and a tagmanifest entry
\* with a wrong checksum, assert_valid_archive fails with the bagit.txt
\* reason: the content check comes before any checksum verification.
C22_BagitTxtCheckedFirst ==
    (/\ vmu_verdict.applied
     /\ vmu_archive.bagit_txt = "bad"
     /\ \E alg \in VM_Algorithms : vmu_archive.tagmanifest[alg] = "mismatch")
    => vmu_verdict.assert_valid_archive
           = VM_JobException("Invalid bagit.txt format")

(***************************************************************************)
(* Claims about lambdas/bagit-uploader-validate.                           *)
(***************************************************************************)
\* C15: for every listing with an entry that splits into exactly
\* <<root, "bagit.txt">>, find_bagit_dir returns that entry's root, whatever
\* else the listing holds and wherever the entry stands in it.
C15_BagitDirOfBagitTxt ==
    \A i \in DOMAIN lv_archive.names :
        (Len(lv_archive.names[i]) = 2 /\ lv_archive.names[i][2] = "bagit.txt")
            => lv_bagit_dir = [returned |-> lv_archive.names[i][1]]

\* C26: every percentProcessed measurement calculate_checksum enqueues has
\* a value between 0 and 1: read_data never exceeds archive_size.
C26_PercentWithinUnit ==
    lv_checksum.called =>
        \A k \in DOMAIN lv_checksum.measurements :
            /\ 0 <= lv_checksum.measurements[k].read_data
            /\ lv_checksum.measurements[k].read_data
                   <= lv_checksum.measurements[k].archive_size

(***************************************************************************)
(* Claims about lambdas/calculate-checksum-rest, continued.                *)
(***************************************************************************)
\* C21: for a job whose file type is not REG, no REST request (content
\* download or xattr write) is ever sent, whatever metadataKey is, and once
\* its run_job is over its result entry carries the checksum None.
C21_NonRegularFileUntouched ==
    \A i \in DOMAIN ccr_job :
        LET file_id == ccr_request.argsBatch[i] IN
        CCR_Files[file_id].type # "REG" =>
            /\ \A h \in ccr_http : h[2] # i
            /\ ccr_job[i].pc \in {"queued", "done"}
            /\ ccr_job[i].pc = "done" =>
                   ccr_futures[i] =
                       CCR_build_job_results(file_id, ccr_request.algorithm,
                                             "None")

\* A batch with a metadataKey whose directory job and regular-file job are
\* both over, the latter having sent its requests.
C21_Witness ==
    /\ ccr_request.metadataKey = "checksum"
    /\ \E i, j \in DOMAIN ccr_job :
           /\ CCR_Files[ccr_request.argsBatch[i]].type # "REG"
           /\ ccr_job[i].pc = "done"
           /\ ccr_job[j].pc = "done"
           /\ \E h \in ccr_http : h[1] = "PUT" /\ h[2] = j

(***************************************************************************)
(* Claims about lambdas/bagit-uploader-unpack-data-mounted, continued.     *)
(***************************************************************************)
\* C23: no archive handle is used by two threads: each handle is used only
\* by the thread that opened it, every unpack_file task that has started has
\* a handle of its own, open exactly while the task runs, and the handle
\* unpack_bagit_archive listed with is closed once the pool has its tasks.
C23_NoSharedArchiveHandle ==
    /\ \A h \in udm_handles : h.used_by = {h.opened_by}
    /\ \A h \in udm_handles : h.opened_by = "handle" => ~h.open
    /\ \A p \in DOMAIN udm_unpack :
           udm_unpack[p] # "queued" =>
               /\ Cardinality({h \in udm_handles : h.opened_by = p}) = 1
               /\ \A h \in udm_handles :
                      h.opened_by = p => (h.open <=> udm_unpack[p] = "extracting")

\* Two unpack_file tasks of one archive are extracting at the same time.
C23_Witness ==
    \E p, q \in DOMAIN udm_unpack :
        /\ p # q
        /\ udm_unpack[p] = "extracting"
        /\ udm_unpack[q] = "extracting"

\* C30: whenever the monitor has counted a file in FilesUnpacked, the
\* BytesUnpacked values attributed to the file up to that tick sum to the
\* size the file had on that tick, and that size had reached the target
\* size it was registered with.
C30_BytesSumToFileSize ==
    \A p \in UDM_Paths :
        udm_streamed.counted[p].times > 0 =>
            /\ udm_streamed.counted[p].bytes = udm_streamed.counted[p].size
            /\ udm_streamed.counted[p].size >= UDM_member(p).size

(***************************************************************************)
(* Claims about calculate_checksum of lambdas/calculate-checksum-mounted.  *)
(***************************************************************************)
RECURSIVE CK_total(_)
CK_total(values) ==
    IF values = <<>> THEN 0 ELSE Head(values) + CK_total(Tail(values))

\* C25: in calculate_checksum of calculate-checksum-mounted, in the adler32
\* branch and in the hashlib one, one measurement is enqueued per chunk read
\* and the values enqueued for the file sum to the bytes read from it.
C25_OneMeasurementPerChunk ==
    ck_call.lambda = "calculate-checksum-mounted" =>
        /\ Len(ck_call.measurements) = Len(ck_call.stream)
        /\ CK_total(ck_call.measurements)
               = CK_total([k \in DOMAIN ck_call.stream |->
                              Len(ck_call.stream[k])])

\* Both branches have read a file of two chunks of different lengths.
C25_Witness ==
    /\ ck_call.lambda = "calculate-checksum-mounted"
    /\ ck_call.algorithm = "md5"
    /\ Len(ck_call.stream) = 2
    /\ Len(ck_call.stream[1]) # Len(ck_call.stream[2])
    /\ CK_total(ck_call.measurements) = 3

(***************************************************************************)
(* Claims about bagit-uploader/unpack-data.                                *)
(***************************************************************************)
\* C24: whatever the interleaving of the threads that call heartbeat(), no
\* heartbeat POST is issued less than HEARTBEAT_INTERVAL_SEC after an
\* earlier POST that returned OK.
C24_NoTwoPostsInOneWindow ==
    \A i, j \in DOMAIN bud_posts :
        (i < j /\ bud_posts[i].ok) =>
            bud_posts[j].time - bud_posts[i].time
                >= BUD_HEARTBEAT_INTERVAL_SEC

\* C27: the uploadedFiles an invocation returns are exactly the destination
\* paths extracted during that invocation.
C27_UploadedFilesOfThisInvocation ==
    bud_pc = "returned" => bud_response.uploadedFiles = bud_extracted

(***************************************************************************)
(* Claims about bagit-uploader/fetch-files.                                *)
(***************************************************************************)
\* C28: when a file of filesToFetch has failed after its last retry, the
\* response handle returns is an exception whose reason holds the error of
\* that file, wherever the file stands in the list.
C28_FailedFileReported ==
    ff_pc = "returned" =>
        \A i \in ff_failed :
            /\ "exception" \in DOMAIN ff_response
            /\ \E k \in DOMAIN ff_response.exception.reason :
                   ff_response.exception.reason[k] = FF_log("error", i)

(***************************************************************************)
(* Claims about bagit-uploader/archive-destination-dm-cern.                *)
(***************************************************************************)
\* C29: wait_until_archive_is_ready always terminates: when from some
\* moment on the archive stays in one state that is not preserved and its
\* bytesArchived stays the same, the function, once called, eventually
\* raises (after purging the archive) or returns.
C29_WaitTerminates ==
    \A state \in DMC_ArchiveStates \ {"preserved"}, bytes \in 0..MaxBytes :
        <>[](dmc_archive = [state |-> state, bytesArchived |-> bytes])
            => <>(dmc_pc \in {"returned", "raised"})

====
